---- MODULE Spec2Model ----
(***************************************************************************)
(* A model of the WAMP session core of wamprx.js: the logon handshake, the *)
(* request-id counter, the keyed demultiplexer (divide) that routes the    *)
(* inbound frames, and the channel operations call / register / publish /  *)
(* subscribe with their release (unsubscribe) paths.                       *)
(*                                                                         *)
(* A frame is the sequence of the JSON texts of its array elements, e.g.   *)
(* [50,101,{"progress":true},[1]] is <<"50","101","{progress:true}",       *)
(* "[1]">>.  The JavaScript value undefined is the text "undefined"; it    *)
(* never occurs in an inbound frame (JSON has no undefined).               *)
(***************************************************************************)
EXTENDS Integers, Sequences, FiniteSets, TLC

(* ------------------------------------------------------------------ *)
(* WampMessageEnum                                                    *)
(* ------------------------------------------------------------------ *)
HELLO == 1
WELCOME == 2
ABORT == 3
CHALLENGE == 4
AUTHENTICATE == 5
ERROR == 8
PUBLISH == 16
PUBLISHED == 17
SUBSCRIBE == 32
SUBSCRIBED == 33
UNSUBSCRIBE == 34
UNSUBSCRIBED == 35
EVENT == 36
CALL == 48
CANCEL == 49
RESULT == 50
REGISTER == 64
REGISTERED == 65
UNREGISTER == 66
UNREGISTERED == 67
INVOCATION == 68
INTERRUPT == 69
YIELD == 70

(* ------------------------------------------------------------------ *)
(* Bounds of the model                                                *)
(* ------------------------------------------------------------------ *)
\* requests one session allocates
MaxReq == 2
\* CHALLENGE frames the router sends during one handshake
MaxChallenges == 2
\* reply frames that arrive for one request id while its operation is open
MaxRx == 2
\* reply frames that arrive for one request id after its operation has ended
MaxLate == 1
\* router invocations per session
MaxInv == 2
\* payloads a handler's sequence emits per invocation
MaxEmit == 2
\* emissions and INTERRUPT frames that reach ended invocation tasks per session
MaxLateInv == 2
\* consumers that subscribe a keyed stream of the lone divide
MaxKids == 2
\* items the base stream of the lone divide emits
MaxItems == 3
\* terminations of the base stream of the lone divide
MaxEnds == 1
MaxBad == 1
MaxAgain == 2

(* ------------------------------------------------------------------ *)
(* Values                                                             *)
(* ------------------------------------------------------------------ *)
Undefined == "undefined"

\* The wire text of a number (JSON.stringify / JSON.parse of an integer).
Num(n) == ToString(n)

\* Element i of a parsed array; reading past the end gives undefined.
At(msg, i) == IF i <= Len(msg) THEN msg[i] ELSE Undefined

\* The rest pattern ([,,, ...rest]) => rest: the elements after the first n.
Rest(msg, n) == SubSeq(msg, n + 1, Len(msg))

\* JavaScript truthiness of a parsed JSON value that is an array/object or absent.
Truthy(v) == v \notin {Undefined, "null", "false"}

\* args.length of a parsed JSON array.
ArrayLength(v) == IF v = "[]" THEN 0 ELSE 1

\* details.progress of a RESULT's details object, as a truth value.
ProgressOf(details) == details = "{progress:true}"

RECURSIVE trimArray(_)
trimArray(a) ==
    IF Len(a) > 0 /\ a[Len(a)] = Undefined
    THEN trimArray(SubSeq(a, 1, Len(a) - 1))
    ELSE a

\* JSON.stringify of an array: an undefined element is written as null.
Stringify(a) == [i \in 1..Len(a) |-> IF a[i] = Undefined THEN "null" ELSE a[i]]

\* The frame send(msg) writes to the socket.
Encode(msg) == Stringify(trimArray(msg))

(* ------------------------------------------------------------------ *)
(* divide: a keyed demultiplexer over one source subscription         *)
(* ------------------------------------------------------------------ *)
NoDivisions == <<>>

EmptyDivide == [divisions |-> NoDivisions, src |-> FALSE]

Without(f, key) == [k \in DOMAIN f \ {key} |-> f[k]]

\* Subscribing the keyed child: divisions[key] = observer; ensureSubscribed().
DivideSubscribe(d, key, observer) ==
    [divisions |-> (key :> observer) @@ d.divisions, src |-> TRUE]

\* maybeUnsubscribe(): the source is released when no division is left.
maybeUnsubscribe(d) ==
    IF ~d.src \/ DOMAIN d.divisions # {}
    THEN d
    ELSE [d EXCEPT !.src = FALSE]

\* The teardown of a keyed child: delete divisions[key]; maybeUnsubscribe().
DivideTeardown(d, key) ==
    maybeUnsubscribe([d EXCEPT !.divisions = Without(d.divisions, key)])

\* The divide of a base stream together with what its surroundings observe:
\* d the divide itself, nSubscribed / nUnsubscribed the subscriptions and
\* teardowns of the base stream, kids the consumers that subscribed a keyed
\* stream, items the keys of the items the base emitted, warned the items
\* dropped with console.warn, ends the terminations of the base.
EmptyBase ==
    [d |-> EmptyDivide, nSubscribed |-> 0, nUnsubscribed |-> 0, kids |-> <<>>,
     items |-> <<>>, warned |-> {}, ends |-> <<>>]

\* Faulty variant of KidSubscribe: the items that were dropped for the key are
\* replayed to the consumer that subscribes it.
KidSubscribe_Replays(v, key) ==
    LET c == Len(v.kids) + 1
        kept == SelectSeq([n \in DOMAIN v.items |-> n],
                          LAMBDA n : n \in v.warned /\ v.items[n] = key)
    IN [v EXCEPT !.d = DivideSubscribe(v.d, key, c),
                 !.nSubscribed = @ + (IF v.d.src THEN 0 ELSE 1),
                 !.kids = Append(@, [key |-> key, state |-> "active", got |-> kept,
                                     err |-> <<>>, since |-> Len(v.items),
                                     end |-> 0])]

\* Faulty variant of KidSubscribe: a key that has a consumer keeps it.
KidSubscribe_KeepsFirst(v, key) ==
    LET c == Len(v.kids) + 1
    IN [v EXCEPT !.d = IF key \in DOMAIN v.d.divisions
                       THEN v.d
                       ELSE DivideSubscribe(v.d, key, c),
                 !.nSubscribed = @ + (IF v.d.src THEN 0 ELSE 1),
                 !.kids = Append(@, [key |-> key, state |-> "active", got |-> <<>>,
                                     err |-> <<>>, since |-> Len(v.items),
                                     end |-> 0])]

\* A consumer subscribes getDivision(key): divisions[key] = observer;
\* ensureSubscribed() subscribes the base when srcSubscription is null.
KidSubscribe(v, key) ==
    LET c == Len(v.kids) + 1
    IN [v EXCEPT !.d = DivideSubscribe(v.d, key, c),
                 !.nSubscribed = @ + (IF v.d.src THEN 0 ELSE 1),
                 !.kids = Append(@, [key |-> key, state |-> "active", got |-> <<>>,
                                     err |-> <<>>, since |-> Len(v.items),
                                     end |-> 0])]

\* The teardown of consumer c: delete divisions[key]; maybeUnsubscribe(),
\* which tears the base subscription down when no division is left.
KidTeardown(v, c) ==
    LET d2 == DivideTeardown(v.d, v.kids[c].key)
    IN [v EXCEPT !.d = d2,
                 !.nUnsubscribed = @ + (IF v.d.src /\ ~d2.src THEN 1 ELSE 0)]

\* Faulty variant of KidNext: the item is put in front of what the consumer
\* already has.
KidNext_Prepend(v, key) ==
    LET n == Len(v.items) + 1
    IN IF key \in DOMAIN v.d.divisions
       THEN [v EXCEPT !.items = Append(@, key),
                      !.kids[v.d.divisions[key]].got = <<n>> \o @]
       ELSE [v EXCEPT !.items = Append(@, key), !.warned = @ \cup {n}]

\* The next callback of the base subscription: the item goes to
\* divisions[keySelector(it)], or is dropped with a warning.
KidNext(v, key) ==
    LET n == Len(v.items) + 1
    IN IF key \in DOMAIN v.d.divisions
       THEN [v EXCEPT !.items = Append(@, key),
                      !.kids[v.d.divisions[key]].got = Append(@, n)]
       ELSE [v EXCEPT !.items = Append(@, key), !.warned = @ \cup {n}]

\* What a consumer does inside its error / complete callback: nothing
\* ("none"), subscribe the same keyed stream again from the callback, that
\* is before its own teardown ("callback"), or after it, as the retry
\* operator does ("retry").
Reactions == {"none", "callback", "retry"}

\* divisions[key].error(e) or .complete() for the consumer c registered for
\* key: the callback runs, then the consumer's teardown.
KidEnd(v, c, e, n, how) ==
    LET told == [v EXCEPT !.kids[c].state = IF e # Undefined THEN "failed"
                                            ELSE "completed",
                          !.kids[c].err = IF e # Undefined THEN <<e>> ELSE <<>>,
                          !.kids[c].end = n]
    IN CASE how = "none" -> KidTeardown(told, c)
         [] how = "callback" -> KidTeardown(KidSubscribe(told, v.kids[c].key), c)
         [] how = "retry" -> KidSubscribe(KidTeardown(told, c), v.kids[c].key)

\* for (let key in divisions): integer-like keys are visited in ascending
\* order; a key deleted before its turn is skipped, a key that was visited is
\* not visited again.
RECURSIVE completeEach(_, _, _, _, _)
completeEach(v, keys, e, n, react) ==
    IF keys = {}
    THEN v
    ELSE LET key == CHOOSE k \in keys : \A j \in keys : k <= j
         IN IF key \notin DOMAIN v.d.divisions
            THEN completeEach(v, keys \ {key}, e, n, react)
            ELSE LET c == v.d.divisions[key]
                     how == IF c = react.kid THEN react.how ELSE "none"
                 IN completeEach(KidEnd(v, c, e, n, how), keys \ {key}, e, n, react)

\* completeAll(e): both the error and the complete callback of the base
\* subscription. Every division is told, then divisions = {} and
\* maybeUnsubscribe().
completeAll(v, kind, e, react) ==
    LET n == Len(v.ends) + 1
        w == completeEach([v EXCEPT !.ends = Append(@, <<kind, e>>)],
                          DOMAIN v.d.divisions, e, n, react)
        d2 == maybeUnsubscribe([w.d EXCEPT !.divisions = NoDivisions])
    IN [w EXCEPT !.d = d2,
                 !.nUnsubscribed = @ + (IF w.d.src /\ ~d2.src THEN 1 ELSE 0)]

(* ------------------------------------------------------------------ *)
(* State                                                              *)
(* ------------------------------------------------------------------ *)
VARIABLES
    auth,           \* whether connectWampChannel was given a LoginAuth
    initialReqId,   \* the initialReqId argument; 0 when it is not given
    conn,           \* position of the connect sequence / logon function
    hsMsg,          \* the value welcomeOrChallenge$ settled its promise with
    connError,      \* the error the connect consumer was failed with
    nextReqId,      \* the request-id counter of the channel
    sent,           \* the frames written with ws.send, in order
    demux,          \* getMsgOfType (top) and the keyed streams made of it (sub)
    challengeCalls, \* the calls of auth.challenge: (method, extra, result)
    hsRx,           \* WELCOME/CHALLENGE/ABORT frames the inbound subscription got
    lost,           \* kinds of frames the transport emitted with no subscriber
    callObs,        \* the call sequences created with channel.call
    ops,            \* the operations started on the channel, by request id
    invs,           \* the invocation tasks, by the router's invocation request id
    sock,           \* the connect consumer's subscription, the sockets made and closed,
                    \* and what the transport ended with (cut)
    dv              \* a divide over a base stream, with its keyed consumers

vars == <<auth, initialReqId, conn, hsMsg, connError, nextReqId, sent, demux,
          challengeCalls, hsRx, lost, callObs, ops, invs, sock, dv>>

\* The keyed streams of createWampChannelFromWs and the frame kind each divides.
SubKind ==
    [error |-> ERROR, result |-> RESULT, registered |-> REGISTERED,
     unregistered |-> UNREGISTERED, published |-> PUBLISHED,
     subscribed |-> SUBSCRIBED, event |-> EVENT, invocation |-> INVOCATION,
     interrupt |-> INTERRUPT]

SubNames == DOMAIN SubKind

\* The position of the key in a frame of each keyed stream (1-based).
SubKeyPos ==
    [error |-> 3, result |-> 2, registered |-> 2, unregistered |-> 2,
     published |-> 2, subscribed |-> 2, event |-> 2, invocation |-> 3,
     interrupt |-> 2]

\* Subscribing keyed stream name(key): the first child subscribes receive$(kind).
SubSubscribe(dm, name, key, owner) ==
    [top |-> IF dm.sub[name].src
             THEN dm.top
             ELSE DivideSubscribe(dm.top, Num(SubKind[name]), name),
     sub |-> [dm.sub EXCEPT ![name] = DivideSubscribe(@, key, owner)]]

\* Releasing keyed stream name(key): the last child releases receive$(kind).
SubTeardown(dm, name, key) ==
    LET d == DivideTeardown(dm.sub[name], key) IN
    [top |-> IF dm.sub[name].src /\ ~d.src
             THEN DivideTeardown(dm.top, Num(SubKind[name]))
             ELSE dm.top,
     sub |-> [dm.sub EXCEPT ![name] = d]]

\* send(msg)
send(log, msg) == Append(log, Encode(msg))

(* ------------------------------------------------------------------ *)
(* Logon                                                              *)
(* ------------------------------------------------------------------ *)
helloDetails == IF auth THEN "{roles,authid,authmethods}" ELSE "{roles}"

LogonKinds == {Num(WELCOME), Num(CHALLENGE), Num(ABORT)}

\* Subscribing welcomeOrChallenge$: merge subscribes the three receive$ streams.
welcomeOrChallengeSubscribe(dm) ==
    [dm EXCEPT !.top =
        DivideSubscribe(
            DivideSubscribe(
                DivideSubscribe(@, Num(WELCOME), "logon"),
                Num(CHALLENGE), "logon"),
            Num(ABORT), "logon")]

\* take(1) or the ABORT error ends welcomeOrChallenge$: all three are released.
welcomeOrChallengeTeardown(dm) ==
    [dm EXCEPT !.top =
        DivideTeardown(
            DivideTeardown(
                DivideTeardown(@, Num(WELCOME)),
                Num(CHALLENGE)),
            Num(ABORT))]

\* What auth.challenge may return: a string, or a pair [string, Dict].
ChallengeResponses == {<<"str", "sig1">>, <<"arr", "sig2", "{extra:1}">>}

IsArray(rsp) == rsp[1] = "arr"

\* Faulty variant of AuthenticateMsg: the dict of a pair result is dropped.
AuthenticateMsg_NoDict(rsp) == <<Num(AUTHENTICATE), rsp[2], "{}">>

\* The AUTHENTICATE message for a challenge response.
AuthenticateMsg(rsp) ==
    IF IsArray(rsp)
    THEN <<Num(AUTHENTICATE)>> \o Rest(rsp, 1)
    ELSE <<Num(AUTHENTICATE), rsp[2], "{}">>

\* Math.floor(Math.random() * 16777216): the largest value stands for the range.
RandomReqIds == {16777215}

\* let nextReqId = initialReqId || Math.floor(Math.random() * 16777216)
InitialNextReqIds == IF initialReqId # 0 THEN {initialReqId} ELSE RandomReqIds

Init ==
    /\ auth \in BOOLEAN
    /\ initialReqId \in {0, 100}
    /\ conn = "idle"
    /\ hsMsg = <<>>
    /\ connError = <<>>
    /\ nextReqId = 0
    /\ sent = <<>>
    /\ demux = [top |-> EmptyDivide, sub |-> [n \in SubNames |-> EmptyDivide]]
    /\ challengeCalls = <<>>
    /\ hsRx = <<>>
    /\ lost = {}
    /\ callObs = {}
    /\ invs = <<>>
    /\ ops = <<>>
    /\ sock = [held |-> FALSE, made |-> 0, closed |-> 0, cut |-> <<>>, bad |-> <<>>]
    /\ dv = EmptyBase

\* The subscribers of webSocket$, which shareReplay counts: the connect
\* consumer's pipeline and message$, which the top divide keeps subscribed
\* while one of its divisions is.
Refs(held, dm) == (IF held THEN 1 ELSE 0) + (IF dm.top.src THEN 1 ELSE 0)

\* shareReplay({bufferSize: 1, refCount: true}): the first subscriber
\* subscribes the source, which calls makeWebSocket; when the last one leaves
\* the source is unsubscribed, which calls ws.close().
Follow(s, before, after) ==
    [s EXCEPT !.made = @ + (IF before = 0 /\ after > 0 THEN 1 ELSE 0),
              !.closed = @ + (IF before > 0 /\ after = 0 THEN 1 ELSE 0)]

\* A step that leaves the connect consumer's subscription as it is.
SockFollows == sock' = Follow(sock, Refs(sock.held, demux), Refs(sock.held, demux'))

\* The connect sequence is subscribed: makeWebSocket(url, protocol) is called.
ConnectSubscribe ==
    /\ conn = "idle"
    /\ conn' = "opening"
    /\ sock' = Follow([sock EXCEPT !.held = TRUE], Refs(FALSE, demux), Refs(TRUE, demux))
    /\ UNCHANGED <<dv, invs, auth, initialReqId, hsMsg, connError, nextReqId, sent, demux,
                   challengeCalls, hsRx, lost, callObs, ops>>

\* The connect consumer releases its subscription: switchMap unsubscribes
\* webSocket$ and drops the promise of createWampChannelFromWs, which runs on.
ConnectRelease ==
    /\ sock.held
    /\ conn \in {"opening", "await", "resume", "established"}
    /\ sock' = Follow([sock EXCEPT !.held = FALSE], Refs(TRUE, demux), Refs(FALSE, demux))
    /\ UNCHANGED <<dv, invs, auth, initialReqId, conn, hsMsg, connError, nextReqId, sent,
                   demux, challengeCalls, hsRx, lost, callObs, ops>>

\* Faulty variant of WsOpen: HELLO is sent and the channel is returned at once,
\* without awaiting the router's answer.
WsOpen_NoAwait ==
    /\ conn = "opening"
    /\ sock.held
    /\ sent' = send(sent, <<Num(HELLO), "fakeRealm", helloDetails>>)
    /\ conn' = "established"
    /\ nextReqId' \in InitialNextReqIds
    /\ UNCHANGED <<dv, invs, auth, initialReqId, hsMsg, connError, demux,
                   challengeCalls, hsRx, lost, callObs, ops>>
    /\ SockFollows

\* ws.onopen: the socket is emitted and createWampChannelFromWs runs up to its
\* first await: HELLO is sent and welcomeOrChallenge$ is subscribed.
WsOpen ==
    /\ conn = "opening"
    /\ sock.held
    /\ sent' = send(sent, <<Num(HELLO), "fakeRealm", helloDetails>>)
    /\ demux' = welcomeOrChallengeSubscribe(demux)
    /\ conn' = "await"
    /\ UNCHANGED <<dv, invs, auth, initialReqId, hsMsg, connError, nextReqId,
                   challengeCalls, hsRx, lost, callObs, ops>>
    /\ SockFollows

\* A WELCOME, CHALLENGE or ABORT reaches welcomeOrChallenge$: the promise is
\* settled with it and the three streams are released.
LogonOnMessage(f) ==
    /\ hsMsg' = f
    /\ conn' = "resume"
    /\ demux' = welcomeOrChallengeTeardown(demux)
    /\ UNCHANGED <<connError, nextReqId, sent, challengeCalls, callObs, ops, invs>>

\* Faulty variant of ChallengeUnexpected: the missing auth is not noticed.
ChallengeUnexpected_Never == FALSE

\* if (!auth) throw new Error('Received unexpected challenge')
ChallengeUnexpected == ~auth

\* Faulty variant of AbortError: the details of the ABORT frame are dropped.
AbortError_ReasonOnly(msg) == Rest(msg, 2)

\* The error of the ABORT branch: flatMap(([, ...error]) => throwError(error))
AbortError(msg) == Rest(msg, 1)

\* What the connect consumer gets of the rejection of createWampChannelFromWs:
\* nothing once it has released its subscription.
Delivered(error) == IF sock.held THEN error ELSE connError

\* The continuation of await welcomeOrChallenge$.toPromise(). A rejection
\* fails the connect consumer, which ends its subscription.
LogonResume ==
    /\ conn = "resume"
    /\ hsMsg' = <<>>
    /\ IF hsMsg[1] = Num(ABORT)
       THEN /\ conn' = "failed"
            /\ connError' = Delivered(AbortError(hsMsg))
            /\ UNCHANGED <<nextReqId, sent, demux, challengeCalls>>
       ELSE IF hsMsg[1] = Num(WELCOME)
       THEN /\ conn' = IF sock.held THEN "established" ELSE "dropped"
            /\ nextReqId' \in InitialNextReqIds
            /\ UNCHANGED <<connError, sent, demux, challengeCalls>>
       ELSE IF ChallengeUnexpected
       THEN /\ conn' = "failed"
            /\ connError' = Delivered(<<"Error", "Received unexpected challenge">>)
            /\ UNCHANGED <<nextReqId, sent, demux, challengeCalls>>
       ELSE \E rsp \in ChallengeResponses :
            /\ challengeCalls' = Append(challengeCalls, <<hsMsg[2], hsMsg[3], rsp>>)
            /\ sent' = send(sent, AuthenticateMsg(rsp))
            /\ demux' = welcomeOrChallengeSubscribe(demux)
            /\ conn' = "await"
            /\ UNCHANGED <<connError, nextReqId>>
    /\ UNCHANGED <<dv, invs, auth, initialReqId, hsRx, lost, callObs, ops>>
    /\ LET held == sock.held /\ conn' # "failed"
       IN sock' = Follow([sock EXCEPT !.held = held],
                         Refs(sock.held, demux), Refs(held, demux'))

\* A responder that answers later: auth.challenge returns a promise, which
\* JSON.stringify writes as {}, and which is fulfilled with a signature.
AsyncResponses == {<<"promise", "{}", "sig3">>}

\* The continuation of await welcomeOrChallenge$.toPromise() for a CHALLENGE
\* whose responder returns a promise: sig is the promise, Array.isArray(sig)
\* is false and send([AUTHENTICATE, sig, {}]) is called at once.
LogonResumeAsync ==
    /\ conn = "resume"
    /\ hsMsg[1] = Num(CHALLENGE)
    /\ ~ChallengeUnexpected
    /\ hsMsg' = <<>>
    /\ \E rsp \in AsyncResponses :
          /\ challengeCalls' = Append(challengeCalls, <<hsMsg[2], hsMsg[3], rsp>>)
          /\ sent' = send(sent, AuthenticateMsg(rsp))
    /\ demux' = welcomeOrChallengeSubscribe(demux)
    /\ conn' = "await"
    /\ UNCHANGED <<dv, invs, auth, initialReqId, connError, nextReqId, hsRx, lost,
                   callObs, ops>>
    /\ SockFollows

\* The promise a responder returned is fulfilled; nothing awaits it.
ResponderSettles(n) ==
    /\ n \in DOMAIN challengeCalls
    /\ challengeCalls[n][3][1] = "promise"
    /\ challengeCalls' = [challengeCalls EXCEPT ![n][3][1] = "fulfilled"]
    /\ UNCHANGED <<dv, invs, auth, initialReqId, conn, hsMsg, connError, nextReqId, sent,
                   demux, hsRx, lost, callObs, ops>>
    /\ SockFollows

(* ------------------------------------------------------------------ *)
(* Requests general                                                   *)
(* ------------------------------------------------------------------ *)
\* The kinds of outbound frames that carry a freshly allocated request id.
RequestKinds ==
    {Num(CALL), Num(SUBSCRIBE), Num(UNSUBSCRIBE), Num(REGISTER),
     Num(UNREGISTER), Num(PUBLISH)}

IsRequest(f) == f[1] \in RequestKinds

Requests == SelectSeq(sent, IsRequest)

\* The channel has been returned and may start another operation.
CanStart == conn = "established" /\ Len(Requests) < MaxReq

\* const reqId = ++nextReqId
NewReqId == nextReqId + 1

\* A started operation, as its consumer and the operators of its pipe see it.
NewOp(kind, obs) ==
    [kind     |-> kind,      \* call, publish, subscribe, register, unregister
     obs      |-> obs,       \* the arguments the operation was created with
     status   |-> "active",  \* what the consumer was told: completed / failed
     closed   |-> FALSE,     \* the subscription has been torn down
     released |-> FALSE,     \* the consumer called unsubscribe()
     complete |-> FALSE,     \* the flag of the call's hookObs
     out      |-> <<>>,      \* the values emitted to the consumer
     err      |-> <<>>,      \* the error the consumer was failed with
     resId    |-> "",        \* subscription / registration id the router gave
     pc       |-> "run",     \* position of the operation's promise continuation
     take     |-> 0,         \* the consumer unsubscribes inside its n-th next callback
     rx       |-> <<>>,      \* the reply frames that arrived while it was open
     ev       |-> <<>>,      \* the EVENT / INVOCATION frames of its id that arrived
     late     |-> 0,         \* the reply frames that arrived after it had ended
     again    |-> 0]         \* the calls of unsubscribe() after the first one

\* throwWhenError$(reqId) is subscribed next to the reply stream `name`(reqId).
ReplySubscribe(dm, name, reqId) ==
    SubSubscribe(SubSubscribe(dm, name, Num(reqId), reqId), "error", Num(reqId), reqId)

ReplyTeardown(dm, name, reqId) ==
    SubTeardown(SubTeardown(dm, name, Num(reqId)), "error", Num(reqId))

(* ------------------------------------------------------------------ *)
(* RPC caller                                                         *)
(* ------------------------------------------------------------------ *)
Uris == {"thing"}

\* The (args, dict) a call or publish is given: both, or only the dict.
Payloads == {<<"[1]", "{k:1}">>, <<Undefined, "{k:1}">>}
OnePayload == {<<"[1]", "{k:1}">>}

\* Faulty variant of CreateCall: a hot call, which sends CALL when created.
CreateCall_Hot(uri, args, dict) ==
    /\ conn = "established"
    /\ <<uri, args, dict>> \notin callObs
    /\ callObs' = callObs \cup {<<uri, args, dict>>}
    /\ nextReqId' = nextReqId + 1
    /\ sent' = send(sent, <<Num(CALL), Num(nextReqId + 1),
                            "{receive_progress:true}", uri, args, dict>>)
    /\ UNCHANGED <<dv, invs, auth, initialReqId, conn, hsMsg, connError,
                   demux, challengeCalls, hsRx, lost, ops>>
    /\ SockFollows

\* channel.call(uri, args, dict): the cold sequence is created, nothing runs.
CreateCall(uri, args, dict) ==
    /\ conn = "established"
    /\ <<uri, args, dict>> \notin callObs
    /\ callObs' = callObs \cup {<<uri, args, dict>>}
    /\ UNCHANGED <<dv, invs, auth, initialReqId, conn, hsMsg, connError, nextReqId, sent,
                   demux, challengeCalls, hsRx, lost, ops>>
    /\ SockFollows

CallMsg(reqId, c) ==
    <<Num(CALL), Num(reqId), "{receive_progress:true}", c[1], c[2], c[3]>>

\* What the consumer of a call does in its next callback: 0 for nothing, n for
\* unsubscribing when it is handed the n-th value (as take(n) or first() do).
Takes == {0, 1}

\* Subscribing a call sequence: defer allocates the id and sends CALL, then
\* switchMap subscribes merge(result$(reqId), throwWhenError$(reqId)).
CallSubscribe(c, n) ==
    /\ CanStart
    /\ c \in callObs
    /\ nextReqId' = NewReqId
    /\ sent' = send(sent, CallMsg(NewReqId, c))
    /\ demux' = ReplySubscribe(demux, "result", NewReqId)
    /\ ops' = (NewReqId :> [NewOp("call", c) EXCEPT !.take = n]) @@ ops
    /\ UNCHANGED <<dv, invs, auth, initialReqId, conn, hsMsg, connError, challengeCalls,
                   hsRx, lost, callObs>>
    /\ SockFollows

\* takeWhile(msg => !!msg[2].progress, true): the frame after which it completes.
IsLast(msg) == ~ProgressOf(At(msg, 3))

\* Faulty variant of HasPayload: no filter, every frame is handed on.
HasPayload_Always(msg) == TRUE

\* filter(([,,{progress}, args]) => progress || (!!args && args.length > 0))
HasPayload(msg) ==
    \/ ProgressOf(At(msg, 3))
    \/ (Truthy(At(msg, 4)) /\ ArrayLength(At(msg, 4)) > 0)

\* Faulty variant of PayloadOf: the details are handed on with the payload.
PayloadOf_WithDetails(msg) == Rest(msg, 2)

\* map(([,,, ...args]) => args)
PayloadOf(msg) == Rest(msg, 3)

\* hookObs onUnsubscribed: CANCEL unless the hook saw complete or error.
CancelOnUnsubscribed(log, reqId, complete) ==
    IF ~complete
    THEN send(log, <<Num(CANCEL), Num(reqId), "{mode:kill}">>)
    ELSE log

\* The part of the state the handlers of inbound frames work on.
Session ==
    [ops |-> ops, invs |-> invs, demux |-> demux, sent |-> sent,
     nextReqId |-> nextReqId]

\* A RESULT frame reaches the call r through result$(r): takeWhile passes it
\* on, the filter and map hand the payload to the consumer; a consumer that
\* unsubscribes in that callback tears the pipe down there and then, before
\* takeWhile goes on to complete. Otherwise takeWhile completes after the last
\* frame, the hook notes the completion, and the pipe is torn down.
CallOnResult(st, r, f) ==
    LET emitted == IF HasPayload(f) THEN Append(st.ops[r].out, PayloadOf(f))
                   ELSE st.ops[r].out
        unsubscribes == HasPayload(f) /\ Len(emitted) = st.ops[r].take
    IN
    IF unsubscribes
    THEN [st EXCEPT
            !.ops = [@ EXCEPT ![r].out = emitted, ![r].released = TRUE,
                              ![r].closed = TRUE],
            !.demux = ReplyTeardown(@, "result", r),
            !.sent = CancelOnUnsubscribed(@, r, st.ops[r].complete)]
    ELSE IF IsLast(f)
    THEN [st EXCEPT
            !.ops = [@ EXCEPT ![r].out = emitted, ![r].complete = TRUE,
                              ![r].status = "completed", ![r].closed = TRUE],
            !.demux = ReplyTeardown(@, "result", r),
            !.sent = CancelOnUnsubscribed(@, r, TRUE)]
    ELSE [st EXCEPT !.ops = [@ EXCEPT ![r].out = emitted]]

\* Faulty variant of ErrorOf: the error is cut to (details, reason).
ErrorOf_NoPayload(msg) == SubSeq(msg, 4, 5)

\* The error tuple of throwWhenError$: switchMap(([,,, ...e]) => throwError(e))
ErrorOf(msg) == Rest(msg, 3)

\* An ERROR frame reaches the call r through throwWhenError$(r).
CallOnError(st, r, f) ==
    [st EXCEPT
        !.ops = [@ EXCEPT ![r].err = ErrorOf(f), ![r].complete = TRUE,
                          ![r].status = "failed", ![r].closed = TRUE],
        !.demux = ReplyTeardown(@, "result", r),
        !.sent = CancelOnUnsubscribed(@, r, TRUE)]

\* The consumer of call r calls unsubscribe().
CallRelease(r) ==
    /\ r \in DOMAIN ops
    /\ ops[r].kind = "call"
    /\ ~ops[r].released
    /\ IF ops[r].closed
       THEN /\ ops' = [ops EXCEPT ![r].released = TRUE]
            /\ UNCHANGED <<demux, sent>>
       ELSE /\ ops' = [ops EXCEPT ![r].released = TRUE, ![r].closed = TRUE]
            /\ demux' = ReplyTeardown(demux, "result", r)
            /\ sent' = CancelOnUnsubscribed(sent, r, ops[r].complete)
    /\ UNCHANGED <<dv, invs, auth, initialReqId, conn, hsMsg, connError, nextReqId,
                   challengeCalls, hsRx, lost, callObs>>
    /\ SockFollows

(* ------------------------------------------------------------------ *)
(* PubSub: publish                                                    *)
(* ------------------------------------------------------------------ *)
PublishMsg(reqId, uri, args, dict) ==
    <<Num(PUBLISH), Num(reqId), "{acknowledge:true}", uri, args, dict>>

\* channel.publish(uri, args, dict): PUBLISH is sent at once and the promise
\* of merge(published$(reqId), throwWhenError$(reqId)).pipe(take(1)) is returned.
Publish(uri, args, dict) ==
    /\ CanStart
    /\ nextReqId' = NewReqId
    /\ sent' = send(sent, PublishMsg(NewReqId, uri, args, dict))
    /\ demux' = ReplySubscribe(demux, "published", NewReqId)
    /\ ops' = (NewReqId :> NewOp("publish", <<uri, args, dict>>)) @@ ops
    /\ UNCHANGED <<dv, invs, auth, initialReqId, conn, hsMsg, connError, challengeCalls,
                   hsRx, lost, callObs>>
    /\ SockFollows

\* Faulty variant of PublishOnPublished: resolves with the request id.
PublishOnPublished_ReqId(st, r, f) ==
    [st EXCEPT
        !.ops = [@ EXCEPT ![r].out = <<<<At(f, 2)>>>>,
                          ![r].status = "completed", ![r].closed = TRUE],
        !.demux = ReplyTeardown(@, "published", r)]

\* PUBLISHED: take(1) resolves the promise with the publication id.
PublishOnPublished(st, r, f) ==
    [st EXCEPT
        !.ops = [@ EXCEPT ![r].out = <<<<At(f, 3)>>>>,
                          ![r].status = "completed", ![r].closed = TRUE],
        !.demux = ReplyTeardown(@, "published", r)]

\* ERROR: the promise is rejected with the error tuple.
PublishOnError(st, r, f) ==
    [st EXCEPT
        !.ops = [@ EXCEPT ![r].err = ErrorOf(f),
                          ![r].status = "failed", ![r].closed = TRUE],
        !.demux = ReplyTeardown(@, "published", r)]

(* ------------------------------------------------------------------ *)
(* PubSub: subscribe                                                  *)
(* ------------------------------------------------------------------ *)
\* Faulty variant of EventTeardown: the event listener is released silently.
EventTeardown_Silent(st, subsId) ==
    IF subsId = ""
    THEN st
    ELSE [st EXCEPT !.demux = SubTeardown(@, "event", subsId)]

\* Faulty variant of EventTeardown: UNSUBSCRIBE reuses the current request id
\* instead of allocating a fresh one.
EventTeardown_StaleId(st, subsId) ==
    IF subsId = ""
    THEN st
    ELSE [st EXCEPT
            !.demux = SubTeardown(@, "event", subsId),
            !.sent = send(@, <<Num(UNSUBSCRIBE), Num(st.nextReqId), subsId>>)]

\* finalize(() => send([UNSUBSCRIBE, ++nextReqId, subsId])) of the inner
\* event$(subsId) stream, run when that stream is released. Nothing listens
\* for the reply: the request is on record as an operation that has ended.
EventTeardown(st, subsId) ==
    IF subsId = ""
    THEN st
    ELSE [st EXCEPT
            !.demux = SubTeardown(@, "event", subsId),
            !.nextReqId = @ + 1,
            !.sent = send(@, <<Num(UNSUBSCRIBE), Num(st.nextReqId + 1), subsId>>),
            !.ops = (st.nextReqId + 1 :>
                        [NewOp("unsubscribe", <<subsId>>) EXCEPT !.closed = TRUE])
                    @@ @]

\* Subscribing a subscribe sequence: SUBSCRIBE is sent and
\* merge(subscribed$(reqId), throwWhenError$(reqId)) is subscribed.
Subscribe(uri) ==
    /\ CanStart
    /\ nextReqId' = NewReqId
    /\ sent' = send(sent, <<Num(SUBSCRIBE), Num(NewReqId), "{}", uri>>)
    /\ demux' = ReplySubscribe(demux, "subscribed", NewReqId)
    /\ ops' = (NewReqId :> NewOp("subscribe", <<uri>>)) @@ ops
    /\ UNCHANGED <<dv, invs, auth, initialReqId, conn, hsMsg, connError, challengeCalls,
                   hsRx, lost, callObs>>
    /\ SockFollows

\* SUBSCRIBED: switchMap releases the inner stream it had and subscribes
\* event$(subsId).
SubscribeOnSubscribed(st, r, f) ==
    LET st1 == EventTeardown(st, st.ops[r].resId) IN
    [st1 EXCEPT
        !.ops = [@ EXCEPT ![r].resId = At(f, 3)],
        !.demux = SubSubscribe(@, "event", At(f, 3), r)]

\* EVENT: map(([,,,,...argsAndDict]) => argsAndDict) hands on the payload.
SubscribeOnEvent(st, r, f) ==
    [st EXCEPT !.ops = [@ EXCEPT ![r].out = Append(@, Rest(f, 4))]]

\* ERROR for the SUBSCRIBE's request id: the sequence fails and is torn down.
SubscribeOnError(st, r, f) ==
    LET st1 == [st EXCEPT
                  !.ops = [@ EXCEPT ![r].err = ErrorOf(f),
                                    ![r].status = "failed", ![r].closed = TRUE],
                  !.demux = ReplyTeardown(@, "subscribed", r)]
    IN EventTeardown(st1, st.ops[r].resId)

\* The consumer of subscribe sequence r calls unsubscribe().
SubscribeRelease(r) ==
    /\ r \in DOMAIN ops
    /\ ops[r].kind = "subscribe"
    /\ ~ops[r].released
    /\ LET st1 == IF ops[r].closed
                  THEN Session
                  ELSE EventTeardown(
                          [Session EXCEPT
                              !.ops = [@ EXCEPT ![r].closed = TRUE],
                              !.demux = ReplyTeardown(@, "subscribed", r)],
                          ops[r].resId)
       IN /\ ops' = [st1.ops EXCEPT ![r].released = TRUE]
          /\ demux' = st1.demux
          /\ sent' = st1.sent
          /\ nextReqId' = st1.nextReqId
    /\ UNCHANGED <<dv, invs, auth, initialReqId, conn, hsMsg, connError, challengeCalls,
                   hsRx, lost, callObs>>
    /\ SockFollows

(* ------------------------------------------------------------------ *)
(* RPC callee: register / unregister                                  *)
(* ------------------------------------------------------------------ *)
\* channel.register(uri, func) up to its await: REGISTER is sent and the promise
\* of merge(registered$(reqId), throwWhenError$(reqId)).pipe(take(1)) awaited.
Register(uri, func) ==
    /\ CanStart
    /\ nextReqId' = NewReqId
    /\ sent' = send(sent, <<Num(REGISTER), Num(NewReqId), "{receive_progress:true}", uri>>)
    /\ demux' = ReplySubscribe(demux, "registered", NewReqId)
    /\ ops' = (NewReqId :> [NewOp("register", <<uri, func>>) EXCEPT !.pc = "await"])
              @@ ops
    /\ UNCHANGED <<dv, invs, auth, initialReqId, conn, hsMsg, connError, challengeCalls,
                   hsRx, lost, callObs>>
    /\ SockFollows

\* REGISTERED: take(1) settles the awaited promise with the registration id.
RegisterOnRegistered(st, r, f) ==
    [st EXCEPT
        !.ops = [@ EXCEPT ![r].resId = At(f, 3), ![r].pc = "resume",
                          ![r].closed = TRUE],
        !.demux = ReplyTeardown(@, "registered", r)]

\* Faulty variant of RegisterOnError: the error reply settles the promise like
\* a REGISTERED without an id.
RegisterOnError_Resolves(st, r, f) ==
    [st EXCEPT
        !.ops = [@ EXCEPT ![r].resId = Undefined, ![r].pc = "resume",
                          ![r].closed = TRUE],
        !.demux = ReplyTeardown(@, "registered", r)]

\* ERROR: the awaited promise is rejected with the error tuple.
RegisterOnError(st, r, f) ==
    [st EXCEPT
        !.ops = [@ EXCEPT ![r].err = ErrorOf(f), ![r].pc = "reject",
                          ![r].closed = TRUE],
        !.demux = ReplyTeardown(@, "registered", r)]

\* The continuation of register's await: the invocation listener is bound and
\* the handle returned, or the rejection is passed on to the caller.
RegisterResume(r) ==
    /\ r \in DOMAIN ops
    /\ ops[r].kind = "register"
    /\ ops[r].pc \in {"resume", "reject"}
    /\ IF ops[r].pc = "resume"
       THEN /\ demux' = SubSubscribe(demux, "invocation", ops[r].resId, r)
            /\ ops' = [ops EXCEPT ![r].pc = "bound", ![r].status = "completed"]
       ELSE /\ ops' = [ops EXCEPT ![r].pc = "done", ![r].status = "failed"]
            /\ UNCHANGED demux
    /\ UNCHANGED <<dv, invs, auth, initialReqId, conn, hsMsg, connError, nextReqId, sent,
                   challengeCalls, hsRx, lost, callObs>>
    /\ SockFollows

\* Faulty variant of RegisterRelease: the running tasks of the registration are
\* part of the handle and are unsubscribed with it.
RegisterRelease_CancelsTasks(r) ==
    /\ r \in DOMAIN ops
    /\ ops[r].kind = "register"
    /\ ops[r].pc = "bound"
    /\ ~ops[r].released
    /\ nextReqId' = NewReqId
    /\ sent' = send(sent, <<Num(UNREGISTER), Num(NewReqId), ops[r].resId>>)
    /\ demux' = ReplySubscribe(SubTeardown(demux, "invocation", ops[r].resId),
                               "unregistered", NewReqId)
    /\ ops' = (NewReqId :> NewOp("unregister", <<ops[r].resId>>))
              @@ [ops EXCEPT ![r].released = TRUE]
    /\ invs' = [i \in DOMAIN invs |->
                  IF invs[i].reg = r /\ invs[i].state = "running"
                  THEN [invs[i] EXCEPT !.state = "completed",
                                       !.cleanup = <<Len(sent)>>]
                  ELSE invs[i]]
    /\ UNCHANGED <<dv, auth, initialReqId, conn, hsMsg, connError, challengeCalls,
                   hsRx, lost, callObs>>
    /\ SockFollows

\* Faulty variant of RegisterRelease: the invocation listener stays subscribed.
RegisterRelease_KeepsListener(r) ==
    /\ r \in DOMAIN ops
    /\ ops[r].kind = "register"
    /\ ops[r].pc = "bound"
    /\ ~ops[r].released
    /\ nextReqId' = NewReqId
    /\ sent' = send(sent, <<Num(UNREGISTER), Num(NewReqId), ops[r].resId>>)
    /\ demux' = ReplySubscribe(demux, "unregistered", NewReqId)
    /\ ops' = (NewReqId :> NewOp("unregister", <<ops[r].resId>>))
              @@ [ops EXCEPT ![r].released = TRUE]
    /\ UNCHANGED <<dv, invs, auth, initialReqId, conn, hsMsg, connError, challengeCalls,
                   hsRx, lost, callObs>>
    /\ SockFollows

\* The registration handle is released: the invocation listener is released
\* and the teardown sends UNREGISTER and awaits
\* merge(unregistered$(id).pipe(take(1)), throwWhenError$(id)).
RegisterRelease(r) ==
    /\ r \in DOMAIN ops
    /\ ops[r].kind = "register"
    /\ ops[r].pc = "bound"
    /\ ~ops[r].released
    /\ nextReqId' = NewReqId
    /\ sent' = send(sent, <<Num(UNREGISTER), Num(NewReqId), ops[r].resId>>)
    /\ demux' = ReplySubscribe(SubTeardown(demux, "invocation", ops[r].resId),
                               "unregistered", NewReqId)
    /\ ops' = (NewReqId :> NewOp("unregister", <<ops[r].resId>>))
              @@ [ops EXCEPT ![r].released = TRUE]
    /\ UNCHANGED <<dv, invs, auth, initialReqId, conn, hsMsg, connError, challengeCalls,
                   hsRx, lost, callObs>>
    /\ SockFollows

\* UNREGISTERED: take(1) ends that branch of the merge; throwWhenError$ stays.
UnregisterOnUnregistered(st, r, f) ==
    [st EXCEPT
        !.ops = [@ EXCEPT ![r].pc = "acked"],
        !.demux = SubTeardown(@, "unregistered", Num(r))]

\* ERROR: the merge fails, its promise is rejected and the catch swallows it.
UnregisterOnError(st, r, f) ==
    [st EXCEPT
        !.ops = [@ EXCEPT ![r].err = ErrorOf(f), ![r].status = "failed",
                          ![r].closed = TRUE],
        !.demux = ReplyTeardown(@, "unregistered", r)]

(* ------------------------------------------------------------------ *)
(* RPC callee: invocations                                            *)
(* ------------------------------------------------------------------ *)
\* What a registered function does when it is called: it returns a sequence
\* (whose emissions, completion and failure are the steps below), or throws.
Handlers == {"sequence", "throws"}

\* The invocation request ids the router uses.
InvocationIds == 1000..(1000 + MaxInv - 1)

\* The values [rspArgs, rspDict] a handler's sequence emits, first to last.
HandlerPayloads == <<<<"[1]", "{k:1}">>, <<"[2]">>, <<"[3]", "{k:2}">>>>

\* The values a handler's sequence fails with: uri and message as the
\* properties read by sendError, json as JSON.stringify writes the value.
HandlerErrors ==
    {[uri |-> "my.error", message |-> "boom", json |-> "{uri:my.error,message:boom}"],
     [uri |-> Undefined, message |-> "something went wrong...",
      json |-> "{message:something went wrong...}"],
     [uri |-> Undefined, message |-> Undefined, json |-> "{code:7}"]}

\* throwError({uri: 'wamp.error.cancelled', message: ...}) of the takeUntil notifier
Cancelled ==
    [uri |-> "wamp.error.cancelled", message |-> "function call has been cancelled",
     json |-> "{uri:wamp.error.cancelled,message:function call has been cancelled}"]

\* JavaScript truthiness of a string property that may be absent.
TruthyString(v) == v \notin {Undefined, ""}

\* details.receive_progress of an INVOCATION's details object, as a truth value.
ReceiveProgressOf(details) == details = "{receive_progress:true}"

\* The invocation request id of an INVOCATION or INTERRUPT frame, as a number.
InvocationIdOf(f) == CHOOSE i \in InvocationIds : Num(i) = At(f, 2)

\* sendError: ERROR(INVOCATION, id, {}, error.uri || 'wamp.error',
\*                  [error.message || {error}])
sendError(log, i, error) ==
    send(log, <<Num(ERROR), Num(INVOCATION), Num(i), "{}",
                IF TruthyString(error.uri) THEN error.uri ELSE "wamp.error",
                IF TruthyString(error.message)
                THEN "[" \o error.message \o "]"
                ELSE "[{error:" \o error.json \o "}]">>)

\* An invocation task: func(args, dict) piped through takeUntil(interrupt$(id))
\* and subscribed in the mode details.receive_progress selects.
NewInv(r, f, handler) ==
    [reg      |-> r,             \* the registration whose listener started it
     args     |-> <<At(f, 5), At(f, 6)>>,  \* what func was called with
     progress |-> ReceiveProgressOf(At(f, 4)),
     state    |-> IF handler = "throws" THEN "thrown" ELSE "running",
     out      |-> <<>>,          \* the payloads emitted while subscribed
     last     |-> <<>>,          \* the value toPromise holds: startWith([])
     err      |-> <<>>,          \* the error the sequence ended with
     pc       |-> "none",        \* the pending promise callback: then / catch
     cleanup  |-> <<>>,          \* Len(sent) when the handler's teardown ran
     frames   |-> <<>>,          \* the frames sent for this invocation id
     kill     |-> FALSE,         \* an INTERRUPT arrived while it was running
     late     |-> 0,             \* emissions of the handler after the end
     intr     |-> 0]             \* INTERRUPT frames that arrived after the end

\* The next callback of invocation$(registrationId): the handler is called,
\* interrupt$(id) is subscribed by takeUntil, then the handler's sequence.
\* A handler that throws leaves the callback before anything is subscribed;
\* the subscriber reports the exception and stays subscribed.
InvocationOnMessage(st, r, f) ==
    LET i == InvocationIdOf(f)
        handler == st.ops[r].obs[2]
    IN [st EXCEPT
          !.invs = (i :> NewInv(r, f, handler)) @@ @,
          !.demux = IF handler = "throws"
                    THEN @
                    ELSE SubSubscribe(@, "interrupt", Num(i), i)]

\* The frame sent for invocation i, noted with the task.
InvSend(st, i, msg) ==
    [st EXCEPT !.sent = send(@, msg),
               !.invs = [@ EXCEPT ![i].frames = Append(@, Encode(msg))]]

InvSendError(st, i, error) ==
    [st EXCEPT !.sent = sendError(@, i, error),
               !.invs = [@ EXCEPT ![i].frames =
                            Append(@, sendError(<<>>, i, error)[1])]]

\* Faulty variant of InvTeardown: interrupt$(id) stays subscribed.
InvTeardown_KeepsInterrupt(st, i) ==
    [st EXCEPT !.invs = [@ EXCEPT ![i].cleanup = <<Len(st.sent)>>]]

\* The subscriber chain of the task is torn down: interrupt$(id) is released
\* and the teardown of the handler's sequence (its cleanup hook) runs.
InvTeardown(st, i) ==
    [st EXCEPT !.demux = SubTeardown(@, "interrupt", Num(i)),
               !.invs = [@ EXCEPT ![i].cleanup = <<Len(st.sent)>>]]

\* The handler's sequence emits [rspArgs, rspDict].
InvOnNext(st, i, p) ==
    LET noted == [st EXCEPT !.invs = [@ EXCEPT ![i].out = Append(@, p),
                                               ![i].last = p]]
    IN IF st.invs[i].progress
       THEN InvSend(noted, i, <<Num(YIELD), Num(i), "{progress:true}",
                               At(p, 1), At(p, 2)>>)
       ELSE noted

\* Faulty variant of InvOnComplete: the terminal YIELD of the progressive mode
\* repeats the last payload.
InvOnComplete_WithPayload(st, i) ==
    LET ended == [st EXCEPT !.invs = [@ EXCEPT ![i].state = "completed"]]
    IN IF st.invs[i].progress
       THEN InvTeardown(InvSend(ended, i, <<Num(YIELD), Num(i), "{}",
                                           At(st.invs[i].last, 1),
                                           At(st.invs[i].last, 2)>>), i)
       ELSE InvTeardown([ended EXCEPT !.invs = [@ EXCEPT ![i].pc = "then"]], i)

\* The handler's sequence completes: the complete callback sends the terminal
\* YIELD, or toPromise resolves with the last value; then the teardown.
InvOnComplete(st, i) ==
    LET ended == [st EXCEPT !.invs = [@ EXCEPT ![i].state = "completed"]]
    IN IF st.invs[i].progress
       THEN InvTeardown(InvSend(ended, i, <<Num(YIELD), Num(i), "{}">>), i)
       ELSE InvTeardown([ended EXCEPT !.invs = [@ EXCEPT ![i].pc = "then"]], i)

\* The piped sequence fails with error (from the handler, or from the
\* takeUntil notifier): the error callback runs sendError, or toPromise
\* rejects; then the teardown.
InvOnError(st, i, error, how) ==
    LET ended == [st EXCEPT !.invs = [@ EXCEPT ![i].state = how,
                                               ![i].err = <<error>>]]
    IN IF st.invs[i].progress
       THEN InvTeardown(InvSendError(ended, i, error), i)
       ELSE InvTeardown([ended EXCEPT !.invs = [@ EXCEPT ![i].pc = "catch"]], i)

\* Faulty variant of InterruptOnMessage: the INTERRUPT is ignored.
InterruptOnMessage_Ignored(st, i, f) == st

\* INTERRUPT(id): take(1), flatMap(throwError(cancelled)) fails the takeUntil.
InterruptOnMessage(st, i, f) == InvOnError(st, i, Cancelled, "interrupted")

\* Faulty variant of InvSettle: the promise callback sends every emitted payload.
InvSettle_All(st, i) ==
    LET done == [st EXCEPT !.invs = [@ EXCEPT ![i].pc = "done"]]
    IN IF st.invs[i].pc = "then"
       THEN InvSend(IF Len(st.invs[i].out) > 1
                    THEN InvSend(done, i, <<Num(YIELD), Num(i), "{}",
                                            At(st.invs[i].out[1], 1),
                                            At(st.invs[i].out[1], 2)>>)
                    ELSE done,
                    i, <<Num(YIELD), Num(i), "{}",
                         At(st.invs[i].last, 1), At(st.invs[i].last, 2)>>)
       ELSE InvSendError(done, i, st.invs[i].err[1])

\* The callback of the non-progressive promise: then sends the terminal YIELD
\* with the last value, catch runs sendError.
InvSettle(st, i) ==
    LET done == [st EXCEPT !.invs = [@ EXCEPT ![i].pc = "done"]]
    IN IF st.invs[i].pc = "then"
       THEN InvSend(done, i, <<Num(YIELD), Num(i), "{}",
                               At(st.invs[i].last, 1), At(st.invs[i].last, 2)>>)
       ELSE InvSendError(done, i, st.invs[i].err[1])

\* The session after a step of an invocation task.
InvStep(st) ==
    /\ invs' = st.invs
    /\ sent' = st.sent
    /\ demux' = st.demux
    /\ UNCHANGED <<dv, auth, initialReqId, conn, hsMsg, connError, nextReqId,
                   challengeCalls, hsRx, lost, callObs, ops>>
    /\ SockFollows

\* The events that reached the invocation tasks after their end.
RECURSIVE LateTotal(_, _)
LateTotal(iv, ids) ==
    IF ids = {}
    THEN 0
    ELSE LET i == CHOOSE j \in ids : TRUE
         IN iv[i].late + iv[i].intr + LateTotal(iv, ids \ {i})

\* The handler's sequence of invocation i emits its next payload; after the
\* task has ended nobody is subscribed to it any more.
HandlerEmit(i) ==
    /\ i \in DOMAIN invs
    /\ invs[i].state # "thrown"
    /\ IF invs[i].state = "running"
       THEN /\ Len(invs[i].out) < MaxEmit
            /\ InvStep(InvOnNext(Session, i, HandlerPayloads[Len(invs[i].out) + 1]))
       ELSE /\ LateTotal(invs, DOMAIN invs) < MaxLateInv
            /\ InvStep([Session EXCEPT !.invs = [@ EXCEPT ![i].late = @ + 1]])

HandlerComplete(i) ==
    /\ i \in DOMAIN invs
    /\ invs[i].state = "running"
    /\ InvStep(InvOnComplete(Session, i))

HandlerFail(i, error) ==
    /\ i \in DOMAIN invs
    /\ invs[i].state = "running"
    /\ InvStep(InvOnError(Session, i, error, "failed"))

InvocationSettle(i) ==
    /\ i \in DOMAIN invs
    /\ invs[i].pc \in {"then", "catch"}
    /\ InvStep(InvSettle(Session, i))

(* ------------------------------------------------------------------ *)
(* Inbound frames                                                     *)
(* ------------------------------------------------------------------ *)
\* The request id a reply frame names.
ReplyId(f) == IF f[1] = Num(ERROR) THEN At(f, 3) ELSE At(f, 2)

ReplyKinds ==
    {Num(ERROR), Num(RESULT), Num(PUBLISHED), Num(SUBSCRIBED), Num(UNSUBSCRIBED),
     Num(REGISTERED), Num(UNREGISTERED)}

\* The operations whose request id the frame names.
Addressed(f) ==
    IF f[1] \in ReplyKinds
    THEN {r \in DOMAIN ops : Num(r) = ReplyId(f)}
    ELSE {}

\* The open subscribe sequences whose subscription id an EVENT frame carries.
Subscribers(f) ==
    IF f[1] = Num(EVENT)
    THEN {r \in DOMAIN ops : /\ ops[r].kind = "subscribe"
                             /\ ~ops[r].closed
                             /\ ops[r].resId = At(f, 2)}
    ELSE {}

\* The registrations whose registration id an INVOCATION frame carries.
Invoked(f) ==
    IF f[1] = Num(INVOCATION)
    THEN {r \in DOMAIN ops : ops[r].kind = "register" /\ ops[r].resId = At(f, 3)}
    ELSE {}

\* The ended invocation tasks whose id an INTERRUPT frame carries.
Interrupted(f) ==
    IF f[1] = Num(INTERRUPT)
    THEN {i \in DOMAIN invs : Num(i) = At(f, 2) /\ invs[i].state # "running"}
    ELSE {}

\* Note the arrival of a reply frame with the operation it names.
RecordRx(st, f) ==
    [st EXCEPT
       !.ops = [r \in DOMAIN @ |->
          IF r \in Subscribers(f) \cup Invoked(f) THEN [@[r] EXCEPT !.ev = Append(@, f)]
          ELSE IF r \notin Addressed(f) THEN @[r]
          ELSE IF @[r].closed THEN [@[r] EXCEPT !.late = @ + 1]
          ELSE [@[r] EXCEPT !.rx = Append(@, f)]],
       !.invs = [i \in DOMAIN @ |->
          IF i \in Interrupted(f) THEN [@[i] EXCEPT !.intr = @ + 1]
          ELSE IF f[1] = Num(INTERRUPT) /\ Num(i) = At(f, 2)
               THEN [@[i] EXCEPT !.kill = TRUE]
               ELSE @[i]]]

\* The keyed stream `name` hands frame f to the observer of operation r.
Deliver(st, name, r, f) ==
    CASE name = "result"       -> CallOnResult(st, r, f)
      [] name = "published"    -> PublishOnPublished(st, r, f)
      [] name = "subscribed"   -> SubscribeOnSubscribed(st, r, f)
      [] name = "event"        -> SubscribeOnEvent(st, r, f)
      [] name = "registered"   -> RegisterOnRegistered(st, r, f)
      [] name = "unregistered" -> UnregisterOnUnregistered(st, r, f)
      [] name = "invocation"   -> InvocationOnMessage(st, r, f)
      [] name = "interrupt"    -> InterruptOnMessage(st, r, f)
      [] name = "error" ->
            CASE st.ops[r].kind = "call"       -> CallOnError(st, r, f)
              [] st.ops[r].kind = "publish"    -> PublishOnError(st, r, f)
              [] st.ops[r].kind = "subscribe"  -> SubscribeOnError(st, r, f)
              [] st.ops[r].kind = "register"   -> RegisterOnError(st, r, f)
              [] st.ops[r].kind = "unregister" -> UnregisterOnError(st, r, f)

\* Faulty variant of Route: the frame's key is not looked at, some registered
\* observer of the keyed stream gets the frame.
Route_AnyObserver(st, f) ==
    LET name == st.demux.top.divisions[f[1]]
        keys == DOMAIN st.demux.sub[name].divisions
    IN IF keys # {}
       THEN Deliver(st, name, st.demux.sub[name].divisions[CHOOSE k \in keys : TRUE], f)
       ELSE st

\* divide's source observer: the observer registered for the frame's key gets
\* the frame; without one the frame is dropped with a warning.
Route(st, f) ==
    LET name == st.demux.top.divisions[f[1]]
        key  == At(f, SubKeyPos[name])
    IN IF key \in DOMAIN st.demux.sub[name].divisions
       THEN Deliver(st, name, st.demux.sub[name].divisions[key], f)
       ELSE st

\* The frames the router sends are bounded per operation and per handshake.
WithinRx(f) ==
    /\ \A r \in Addressed(f) :
          IF ops[r].closed THEN ops[r].late < MaxLate ELSE Len(ops[r].rx) < MaxRx
    /\ \A r \in Subscribers(f) : Len(ops[r].ev) < MaxRx
    /\ \A r \in Invoked(f) : Len(ops[r].ev) < MaxInv
    /\ Interrupted(f) # {} => LateTotal(invs, DOMAIN invs) < MaxLateInv
    /\ f[1] \in LogonKinds => Len(hsRx) <= MaxChallenges

\* The transport emits frame f while message$ is subscribed: JSON.parse, then
\* getMsgOfType routes it by kind and the keyed streams by their key.
Receive(f) ==
    /\ demux.top.src
    /\ WithinRx(f)
    /\ hsRx' = IF f[1] \in LogonKinds THEN Append(hsRx, f) ELSE hsRx
    /\ IF f[1] \in DOMAIN demux.top.divisions /\ demux.top.divisions[f[1]] = "logon"
       THEN /\ LogonOnMessage(f)
       ELSE /\ LET st == IF f[1] \in DOMAIN demux.top.divisions
                         THEN Route(RecordRx(Session, f), f)
                         ELSE RecordRx(Session, f)
               IN /\ ops' = st.ops
                  /\ invs' = st.invs
                  /\ demux' = st.demux
                  /\ sent' = st.sent
                  /\ nextReqId' = st.nextReqId
            /\ UNCHANGED <<conn, hsMsg, connError, challengeCalls, callObs>>
    /\ UNCHANGED <<dv, auth, initialReqId, lost>>
    /\ SockFollows

\* The transport emits frame f while nobody is subscribed to receive$.
ReceiveUnsubscribed(f) ==
    /\ ~demux.top.src
    /\ conn \notin {"idle", "opening"}
    /\ f[1] \notin lost
    /\ lost' = lost \cup {f[1]}
    /\ UNCHANGED <<dv, invs, auth, initialReqId, conn, hsMsg, connError, nextReqId, sent,
                   demux, challengeCalls, hsRx, callObs, ops>>
    /\ SockFollows

(* ------------------------------------------------------------------ *)
(* unsubscribe() called again                                         *)
(* ------------------------------------------------------------------ *)
\* The frame the teardown of operation r writes when it runs.
TeardownFrame(r) ==
    CASE ops[r].kind = "call"      -> <<Num(CANCEL), Num(r), "{mode:kill}">>
      [] ops[r].kind = "subscribe" -> <<Num(UNSUBSCRIBE), Num(NewReqId), ops[r].resId>>
      [] ops[r].kind = "register"  -> <<Num(UNREGISTER), Num(NewReqId), ops[r].resId>>

\* Faulty variant of ReleaseAgain: the teardown runs on every call.
ReleaseAgain_Reruns(r) ==
    /\ r \in DOMAIN ops
    /\ ops[r].kind \in {"call", "subscribe", "register"}
    /\ ops[r].released
    /\ ops[r].again < MaxAgain
    /\ ops' = [ops EXCEPT ![r].again = @ + 1]
    /\ sent' = send(sent, TeardownFrame(r))
    /\ nextReqId' = IF ops[r].kind = "call" THEN nextReqId ELSE NewReqId
    /\ UNCHANGED <<dv, invs, auth, initialReqId, conn, hsMsg, connError, demux,
                   challengeCalls, hsRx, lost, callObs>>
    /\ SockFollows

\* The consumer of call or subscribe sequence r, or the holder of the handle
\* of registration r, calls unsubscribe() on a subscription it has released
\* before: the subscription is closed, its teardowns (the hook's
\* onUnsubscribed, finalize, the handle's UNREGISTER teardown) have run and
\* been dropped, and the call returns.
ReleaseAgain(r) ==
    /\ r \in DOMAIN ops
    /\ ops[r].kind \in {"call", "subscribe", "register"}
    /\ ops[r].released
    /\ ops[r].again < MaxAgain
    /\ ops' = [ops EXCEPT ![r].again = @ + 1]
    /\ UNCHANGED <<dv, invs, auth, initialReqId, conn, hsMsg, connError, nextReqId, sent,
                   demux, challengeCalls, hsRx, lost, callObs>>
    /\ SockFollows

(* ------------------------------------------------------------------ *)
(* The transport ends: ws.onclose, ws.onerror                         *)
(* ------------------------------------------------------------------ *)
\* What webSocket$ fails with: new Error('Websocket disconnected') from
\* onclose, e.error from onerror, which is whatever the error event carries
\* in that property: an Error, or undefined when the event has none.
WsCauses ==
    {<<"Error", "Websocket disconnected">>, <<"Error", "read ECONNRESET">>,
     <<Undefined>>}

\* The operations that still hold a subscription on an inbound stream.
OpenOps(o) == {r \in DOMAIN o : ~o[r].closed}

\* The consumers of a keyed stream, by what the registry holds.
Owners(d) == {d.divisions[k] : k \in DOMAIN d.divisions}

\* A frame whose rest, as throwWhenError$ takes it, is the cause: the
\* handlers of an operation's failure are handed the cause with it.
FailureFrame(r, cause) == <<Num(ERROR), Undefined, Num(r)>> \o cause

\* An Error as sendError reads it: no uri, its message.
CauseRecord(cause) ==
    [uri |-> Undefined, message |-> cause[2], json |-> "{}"]

\* completeAll(e) of error$ with a cause that is not undefined: every
\* throwWhenError$(reqId) fails, in the order of the request ids, and with it
\* the merge of the operation that subscribed it.
RECURSIVE FailEach(_, _, _)
FailEach(st, rs, cause) ==
    IF rs = {}
    THEN st
    ELSE LET r == CHOOSE q \in rs : \A j \in rs : q <= j
         IN FailEach(IF r \in Owners(st.demux.sub.error)
                     THEN Deliver(st, "error", r, FailureFrame(r, cause))
                     ELSE st,
                     rs \ {r}, cause)

\* completeAll(e) of interrupt$: the notifier of takeUntil fails and fails
\* the task's sequence with the cause; sendError writes it.
RECURSIVE FailTasks(_, _, _)
FailTasks(st, is, cause) ==
    IF is = {}
    THEN st
    ELSE LET i == CHOOSE q \in is : \A j \in is : q <= j
         IN FailTasks(InvOnError(st, i, CauseRecord(cause), "disconnected"),
                      is \ {i}, cause)

\* The router-assigned ids of this model in the order for..in visits them:
\* integer-like keys ascending.
ForInOrder == <<"5", "6", "9">>

\* The inbound streams an operation merged have all completed.
\*   call: takeWhile and the hook see a completion, no CANCEL is sent;
\*   publish, unregister: take(1) / toPromise resolve with undefined;
\*   register: the await yields undefined as the registration id;
\*   subscribe: the outer merge completes, and the sequence with it unless an
\*     inner event$(subsId) is subscribed: then it completes when that does.
OpOnComplete(st, r) ==
    LET o == st.ops[r]
    IN CASE o.kind = "call" ->
              [st EXCEPT
                 !.ops = [@ EXCEPT ![r].complete = TRUE,
                                   ![r].status = "completed", ![r].closed = TRUE],
                 !.demux = ReplyTeardown(@, "result", r),
                 !.sent = CancelOnUnsubscribed(@, r, TRUE)]
         [] o.kind = "publish" ->
              [st EXCEPT
                 !.ops = [@ EXCEPT ![r].out = <<<<Undefined>>>>,
                                   ![r].status = "completed", ![r].closed = TRUE],
                 !.demux = ReplyTeardown(@, "published", r)]
         [] o.kind = "register" ->
              [st EXCEPT
                 !.ops = [@ EXCEPT ![r].resId = Undefined, ![r].pc = "resume",
                                   ![r].closed = TRUE],
                 !.demux = ReplyTeardown(@, "registered", r)]
         [] o.kind = "unregister" ->
              [st EXCEPT
                 !.ops = [@ EXCEPT ![r].status = "completed", ![r].closed = TRUE],
                 !.demux = ReplyTeardown(@, "unregistered", r)]
         [] o.kind = "subscribe" ->
              LET st1 == [st EXCEPT !.demux = ReplyTeardown(@, "subscribed", r)]
              IN IF o.resId = ""
                 THEN [st1 EXCEPT !.ops = [@ EXCEPT ![r].status = "completed",
                                                    ![r].closed = TRUE]]
                 ELSE st1

\* completeAll() of event$: the inner stream of the subscription that holds
\* the entry completes, finalize sends UNSUBSCRIBE, and the subscription's
\* sequence, whose outer merge has completed before, completes.
EventOnComplete(st, subsId) ==
    IF subsId \notin DOMAIN st.demux.sub.event.divisions
    THEN st
    ELSE LET r == st.demux.sub.event.divisions[subsId]
         IN EventTeardown([st EXCEPT !.ops = [@ EXCEPT ![r].status = "completed",
                                                       ![r].closed = TRUE]],
                          subsId)

RECURSIVE CompleteEach(_, _)
CompleteEach(st, rs) ==
    IF rs = {}
    THEN st
    ELSE LET r == CHOOSE q \in rs : \A j \in rs : q <= j
         IN CompleteEach(OpOnComplete(st, r), rs \ {r})

RECURSIVE CompleteEvents(_, _)
CompleteEvents(st, n) ==
    IF n > Len(ForInOrder)
    THEN st
    ELSE CompleteEvents(EventOnComplete(st, ForInOrder[n]), n + 1)

\* Every divide of the channel after completeAll: divisions = {}.
NoDemux == [top |-> EmptyDivide, sub |-> [n \in SubNames |-> EmptyDivide]]

\* What the failure of webSocket$ with the given cause does to the channel:
\* message$ fails with it and the top divide's completeAll(cause) passes it
\* on to every keyed stream, whose divides pass it on to their consumers -
\* as a failure, or as a completion when the cause is undefined.
ChannelEnd(st, cause) ==
    LET ended == IF cause # <<Undefined>>
                 THEN FailTasks(FailEach(st, Owners(st.demux.sub.error), cause),
                                Owners(st.demux.sub.interrupt), cause)
                 ELSE CompleteEvents(CompleteEach(st, Owners(st.demux.sub.error)), 1)
    IN [ended EXCEPT !.demux = NoDemux]

\* ws.onclose / ws.onerror: webSocket$ fails with the cause. The connect
\* consumer is failed, which ends its subscription; the socket is closed by
\* the teardown; the channel's inbound stream fails.
TransportFail(cause) ==
    /\ conn \in {"opening", "await", "established"}
    /\ sock.made > sock.closed
    /\ sock.cut = <<>>
    /\ LET st == ChannelEnd(Session, cause)
       IN /\ ops' = st.ops
          /\ invs' = st.invs
          /\ demux' = st.demux
          /\ sent' = st.sent
          /\ nextReqId' = st.nextReqId
    /\ conn' = "failed"
    /\ connError' = Delivered(cause)
    /\ sock' = [sock EXCEPT !.held = FALSE, !.closed = @ + 1,
                            !.cut = <<cause, OpenOps(ops)>>]
    /\ UNCHANGED <<dv, auth, initialReqId, hsMsg, challengeCalls, hsRx, lost, callObs>>

(* ------------------------------------------------------------------ *)
(* A frame that is not JSON                                           *)
(* ------------------------------------------------------------------ *)
\* What JSON.parse throws for a text that is not JSON.
ParseError == <<"SyntaxError", "Unexpected token">>

\* The transport emits a text that is not JSON while message$ is subscribed:
\* the projection of map throws, message$ fails with the SyntaxError and the
\* top divide's completeAll(e) passes it on as ChannelEnd does; each divide
\* ends with an empty registry and no source subscription, ready to
\* subscribe its source again. webSocket$ itself has not failed: the socket
\* and the connect consumer stay as they are, unless the handshake was
\* awaiting its answer, whose promise is then rejected.
ReceiveMalformed ==
    /\ demux.top.src
    /\ Len(sock.bad) < MaxBad
    /\ LET st == ChannelEnd(Session, ParseError)
       IN /\ ops' = st.ops
          /\ invs' = st.invs
          /\ demux' = st.demux
          /\ sent' = st.sent
          /\ nextReqId' = st.nextReqId
    /\ IF conn = "await"
       THEN /\ conn' = "failed"
            /\ connError' = Delivered(ParseError)
       ELSE UNCHANGED <<conn, connError>>
    /\ LET held == sock.held /\ conn' # "failed"
           seen == [open |-> OpenOps(ops), known |-> DOMAIN ops]
       IN sock' = Follow([sock EXCEPT !.held = held, !.bad = Append(@, seen)],
                         Refs(sock.held, demux), Refs(held, demux'))
    /\ UNCHANGED <<dv, auth, initialReqId, hsMsg, challengeCalls, hsRx, lost, callObs>>

(* ------------------------------------------------------------------ *)
(* divide on its own: a base stream and its keyed consumers           *)
(* ------------------------------------------------------------------ *)
\* The keys of the items and of the keyed streams.
DivKeys == {1, 2}

\* What the base stream can fail with; error(undefined) is a failure too.
Causes == {Undefined, "boom"}

Session0 == <<auth, initialReqId, conn, hsMsg, connError, nextReqId, sent, demux,
              challengeCalls, hsRx, lost, callObs, ops, invs, sock>>

\* getDivision(key).subscribe(...)
DivSubscribe(key) ==
    /\ Len(dv.kids) < MaxKids
    /\ dv' = KidSubscribe(dv, key)
    /\ UNCHANGED Session0

\* The consumer c releases its subscription.
DivRelease(c) ==
    /\ c \in DOMAIN dv.kids
    /\ dv.kids[c].state = "active"
    /\ dv' = [KidTeardown(dv, c) EXCEPT !.kids[c].state = "released"]
    /\ UNCHANGED Session0

\* The base stream emits an item of the given key.
BaseNext(key) ==
    /\ dv.d.src
    /\ Len(dv.items) < MaxItems
    /\ dv' = KidNext(dv, key)
    /\ UNCHANGED Session0

\* The base stream completes.
BaseComplete(react) ==
    /\ dv.d.src
    /\ Len(dv.ends) < MaxEnds
    /\ Len(dv.kids) < MaxKids \/ react.how = "none"
    /\ dv' = completeAll(dv, "complete", Undefined, react)
    /\ UNCHANGED Session0

\* The base stream fails with cause e.
BaseError(e, react) ==
    /\ dv.d.src
    /\ Len(dv.ends) < MaxEnds
    /\ Len(dv.kids) < MaxKids \/ react.how = "none"
    /\ dv' = completeAll(dv, "error", e, react)
    /\ UNCHANGED Session0

\* The consumer that reacts to the end of the base, and how.
Reacts ==
    {[kid |-> c, how |-> h] : c \in DOMAIN dv.kids, h \in Reactions \ {"none"}}
        \cup {[kid |-> 0, how |-> "none"]}

InitDivide == Init /\ ~auth /\ initialReqId = 0

NextDivide ==
    \/ \E key \in DivKeys : DivSubscribe(key)
    \/ \E c \in 1..MaxKids : DivRelease(c)
    \/ \E key \in DivKeys : BaseNext(key)
    \/ \E react \in Reacts : BaseComplete(react)
    \/ \E e \in Causes, react \in Reacts : BaseError(e, react)

SpecDivide == InitDivide /\ [][NextDivide]_vars

(* ------------------------------------------------------------------ *)
(* What the router may send                                           *)
(* ------------------------------------------------------------------ *)
LogonFrames ==
    {<<Num(WELCOME), "123", "{}">>,
     <<Num(CHALLENGE), "ticket", "{}">>,
     <<Num(CHALLENGE), "wampcra", "{somethingExtra}">>,
     <<Num(ABORT), "{}", "wamp.error.no_such_realm">>}

\* RESULT frames for a call: progressive and last ones, with and without payload.
ResultFrames(id) ==
    {<<Num(RESULT), id, "{progress:true}", "[1]">>,
     <<Num(RESULT), id, "{progress:true}", "[2]", "{k:1}">>,
     <<Num(RESULT), id, "{}">>,
     <<Num(RESULT), id, "{}", "[]", "{k:1}">>,
     <<Num(RESULT), id, "{}", "[3]">>,
     <<Num(RESULT), id, "{}", "null", "{k:1}">>,
     <<Num(RESULT), id, "{progress:false}", "[3]", "{k:1}">>}

\* ERROR frames for a request of the given kind.
ErrorFrames(kind, id) ==
    {<<Num(ERROR), Num(kind), id, "{}", "wamp.error.x">>,
     <<Num(ERROR), Num(kind), id, "{d:1}", "wamp.error.z", "[9]", "{k:1}">>}

\* The ids the router hands out for subscriptions and registrations.
SubscriptionIds == {"5"}
RegistrationIds == {"9"}

EventFrames(subsId) ==
    {<<Num(EVENT), subsId, "77", "{}", "[1]">>}

\* A small choice of replies to operation r, by its kind.
RepliesTo(r) ==
    CASE ops[r].kind = "call" ->
            {<<Num(RESULT), Num(r), "{progress:true}", "[1]">>,
             <<Num(RESULT), Num(r), "{}", "[3]">>,
             <<Num(ERROR), Num(CALL), Num(r), "{}", "wamp.error.y", "[9]", "{k:1}">>}
      [] ops[r].kind = "publish" ->
            {<<Num(PUBLISHED), Num(r), "7">>,
             <<Num(ERROR), Num(PUBLISH), Num(r), "{}", "wamp.error.y", "[9]">>}
      [] ops[r].kind = "subscribe" ->
            {<<Num(SUBSCRIBED), Num(r), s>> : s \in SubscriptionIds}
            \cup {<<Num(ERROR), Num(SUBSCRIBE), Num(r), "{}", "wamp.error.y", "[9]">>}
            \cup (IF ops[r].resId = "" THEN {} ELSE EventFrames(ops[r].resId))
      [] ops[r].kind = "register" ->
            {<<Num(REGISTERED), Num(r), g>> : g \in RegistrationIds}
            \cup {<<Num(ERROR), Num(REGISTER), Num(r), "{}", "wamp.error.y", "[9]">>}
      [] ops[r].kind = "unregister" ->
            {<<Num(UNREGISTERED), Num(r)>>,
             <<Num(ERROR), Num(UNREGISTER), Num(r), "{}", "wamp.error.y", "[9]">>}
      [] ops[r].kind = "unsubscribe" ->
            {<<Num(UNSUBSCRIBED), Num(r)>>,
             <<Num(ERROR), Num(UNSUBSCRIBE), Num(r), "{}", "wamp.error.y">>}

ChannelFrames == UNION {RepliesTo(r) : r \in DOMAIN ops}

\* Every reply a router can give to a call.
CallFrames ==
    UNION {ResultFrames(Num(r)) \cup ErrorFrames(CALL, Num(r)) : r \in DOMAIN ops}

(* ------------------------------------------------------------------ *)
(* Specifications                                                     *)
(* ------------------------------------------------------------------ *)
Welcome == <<Num(WELCOME), "123", "{}">>

\* The session as the test harness prepares it: no auth, a given or a random
\* seed, a router that welcomes and then answers the requests it was sent.
InitChannel == Init /\ ~auth

Next ==
    \/ ConnectSubscribe
    \/ WsOpen
    \/ LogonResume
    \/ Receive(Welcome)
    \/ \E f \in ChannelFrames : Receive(f)
    \/ \E u \in Uris, p \in OnePayload : CreateCall(u, p[1], p[2])
    \/ \E c \in callObs, n \in Takes : CallSubscribe(c, n)
    \/ \E r \in DOMAIN ops : CallRelease(r)
    \/ \E u \in Uris, p \in OnePayload : Publish(u, p[1], p[2])
    \/ \E u \in Uris : Subscribe(u)
    \/ \E r \in DOMAIN ops : SubscribeRelease(r)
    \/ \E u \in Uris : Register(u, "sequence")
    \/ \E r \in DOMAIN ops : RegisterResume(r)
    \/ \E r \in DOMAIN ops : RegisterRelease(r)

Spec == InitChannel /\ [][Next]_vars

\* The handshake, with and without auth, against a router that may welcome,
\* challenge or abort at any time; then a first request, left unanswered.
NextLogon ==
    \/ ConnectSubscribe
    \/ WsOpen
    \/ LogonResume
    \/ \E f \in LogonFrames : Receive(f)
    \/ \E f \in LogonFrames : ReceiveUnsubscribed(f)
    \/ \E u \in Uris, p \in OnePayload : CreateCall(u, p[1], p[2])
    \/ \E c \in callObs, n \in Takes : Requests = <<>> /\ CallSubscribe(c, n)
    \/ \E u \in Uris, p \in OnePayload : Requests = <<>> /\ Publish(u, p[1], p[2])
    \/ \E u \in Uris : Requests = <<>> /\ Subscribe(u)
    \/ \E u \in Uris : Requests = <<>> /\ Register(u, "sequence")

SpecLogon == Init /\ [][NextLogon]_vars

\* Calls only, seed 100, against every reply a router can give to a call.
InitCall == Init /\ ~auth /\ initialReqId = 100

NextCall ==
    \/ ConnectSubscribe
    \/ WsOpen
    \/ LogonResume
    \/ Receive(Welcome)
    \/ \E f \in CallFrames : Receive(f)
    \/ \E u \in Uris, p \in Payloads : CreateCall(u, p[1], p[2])
    \/ \E c \in callObs, n \in Takes : CallSubscribe(c, n)
    \/ \E r \in DOMAIN ops : CallRelease(r)

SpecCall == InitCall /\ [][NextCall]_vars

\* The connect sequence as a resource: the consumer subscribes and releases it
\* at any point of the handshake or of one call on the channel, against a
\* router that may welcome, challenge or abort and answers the call.
InitConnect == Init /\ initialReqId = 100

NextConnect ==
    \/ ConnectSubscribe
    \/ ConnectRelease
    \/ WsOpen
    \/ LogonResume
    \/ \E f \in LogonFrames : Receive(f)
    \/ \E f \in CallFrames : Receive(f)
    \/ \E u \in Uris, p \in OnePayload : CreateCall(u, p[1], p[2])
    \/ \E c \in callObs, n \in Takes : Requests = <<>> /\ CallSubscribe(c, n)
    \/ \E r \in DOMAIN ops : CallRelease(r)

SpecConnect == InitConnect /\ [][NextConnect]_vars

\* The transport ends at any point of a session: during the handshake, or with
\* calls, publications, subscriptions and registrations under way, which the
\* router has answered only as far as keeps them open.
OpenReplies(r) ==
    CASE ops[r].kind = "call" -> {<<Num(RESULT), Num(r), "{progress:true}", "[1]">>}
      [] ops[r].kind = "subscribe" ->
            {<<Num(SUBSCRIBED), Num(r), s>> : s \in SubscriptionIds}
            \cup (IF ops[r].resId = "" THEN {} ELSE EventFrames(ops[r].resId))
      [] OTHER -> {}

TransportFrames == UNION {OpenReplies(r) : r \in DOMAIN ops}

NextTransport ==
    \/ ConnectSubscribe
    \/ WsOpen
    \/ LogonResume
    \/ Receive(Welcome)
    \/ \E f \in TransportFrames : Receive(f)
    \/ \E u \in Uris, p \in OnePayload : CreateCall(u, p[1], p[2])
    \/ \E c \in callObs : CallSubscribe(c, 0)
    \/ \E u \in Uris, p \in OnePayload : Publish(u, p[1], p[2])
    \/ \E u \in Uris : Subscribe(u)
    \/ \E u \in Uris : Register(u, "sequence")
    \/ \E r \in DOMAIN ops : RegisterResume(r)
    \/ \E cause \in WsCauses : TransportFail(cause)

SpecTransport == InitCall /\ [][NextTransport]_vars

\* Publications, seed 100, with and without payload, against every reply a
\* router can give to them, in any order and number.
PubPayloads == {<<"[1]", "{k:1}">>, <<Undefined, Undefined>>, <<Undefined, "{k:1}">>}

PublishFrames ==
    UNION {{<<Num(PUBLISHED), Num(r), "7">>} \cup ErrorFrames(PUBLISH, Num(r)) :
           r \in DOMAIN ops}

NextPublish ==
    \/ ConnectSubscribe
    \/ WsOpen
    \/ LogonResume
    \/ Receive(Welcome)
    \/ \E f \in PublishFrames : Receive(f)
    \/ \E u \in Uris, p \in PubPayloads : Publish(u, p[1], p[2])

SpecPublish == InitCall /\ [][NextPublish]_vars

\* Subscriptions, seed 100: a router that answers a SUBSCRIBE with at most one
\* SUBSCRIBED, may give two subscriptions the same or different ids, and
\* sends events of both ids, errors and replies to UNSUBSCRIBE at any time.
BrokerSubscriptionIds == {"5", "6"}

BrokerEvents(subsId) ==
    {<<Num(EVENT), subsId, "77", "{}", "[1]">>,
     <<Num(EVENT), subsId, "78", "{}", "[2]", "{k:1}">>}

BrokerRepliesTo(r) ==
    CASE ops[r].kind = "subscribe" ->
            (IF ops[r].resId = ""
             THEN {<<Num(SUBSCRIBED), Num(r), s>> : s \in BrokerSubscriptionIds}
             ELSE {})
            \cup {<<Num(ERROR), Num(SUBSCRIBE), Num(r), "{}", "wamp.error.x">>}
            \cup UNION {BrokerEvents(s) : s \in BrokerSubscriptionIds}
      [] ops[r].kind = "unsubscribe" ->
            {<<Num(UNSUBSCRIBED), Num(r)>>,
             <<Num(ERROR), Num(UNSUBSCRIBE), Num(r), "{}", "wamp.error.x">>}

BrokerFrames == UNION {BrokerRepliesTo(r) : r \in DOMAIN ops}

NextSubscribe ==
    \/ ConnectSubscribe
    \/ WsOpen
    \/ LogonResume
    \/ Receive(Welcome)
    \/ \E f \in BrokerFrames : Receive(f)
    \/ \E u \in Uris : Subscribe(u)
    \/ \E r \in DOMAIN ops : SubscribeRelease(r)

SpecSubscribe == InitCall /\ [][NextSubscribe]_vars

\* One registration, seed 100: a dealer that answers a REGISTER at most once,
\* invokes the registered procedure with fresh invocation ids, with and
\* without receive_progress, and interrupts any invocation at any time;
\* handlers that return a sequence and handlers that throw; the handle is
\* kept.
DealerRepliesTo(r) ==
    IF ops[r].kind = "register" /\ ~ops[r].closed
    THEN {<<Num(REGISTERED), Num(r), g>> : g \in RegistrationIds}
         \cup ErrorFrames(REGISTER, Num(r))
    ELSE {}

InvocationFrames ==
    {f \in {<<Num(INVOCATION), Num(i), g, d, "[1]">> :
               i \in InvocationIds \ DOMAIN invs, g \in RegistrationIds,
               d \in {"{receive_progress:true}", "{}"}} :
        \A j \in DOMAIN invs : j < InvocationIdOf(f)}

InterruptFrames == {<<Num(INTERRUPT), Num(i), "{mode:kill}">> : i \in DOMAIN invs}

DealerFrames ==
    UNION {DealerRepliesTo(r) : r \in DOMAIN ops}
    \cup InvocationFrames \cup InterruptFrames

NextCallee ==
    \/ ConnectSubscribe
    \/ WsOpen
    \/ LogonResume
    \/ Receive(Welcome)
    \/ \E f \in DealerFrames : Receive(f)
    \/ \E u \in Uris, h \in Handlers : Requests = <<>> /\ Register(u, h)
    \/ \E r \in DOMAIN ops : RegisterResume(r)
    \/ \E i \in DOMAIN invs : HandlerEmit(i)
    \/ \E i \in DOMAIN invs : HandlerComplete(i)
    \/ \E i \in DOMAIN invs, e \in HandlerErrors : HandlerFail(i, e)
    \/ \E i \in DOMAIN invs : InvocationSettle(i)

SpecCallee == InitCall /\ [][NextCallee]_vars

\* One registration whose handle is released at any time, seed 100: a dealer
\* that answers the REGISTER once, invokes the procedure before and after the
\* release, interrupts the invocations and answers the UNREGISTER with
\* UNREGISTERED or ERROR; a handler whose sequences emit once and complete.
ReleaseRepliesTo(r) ==
    CASE ops[r].kind = "register" ->
            IF ops[r].closed
            THEN {}
            ELSE {<<Num(REGISTERED), Num(r), g>> : g \in RegistrationIds}
      [] ops[r].kind = "unregister" ->
            {<<Num(UNREGISTERED), Num(r)>>,
             <<Num(ERROR), Num(UNREGISTER), Num(r), "{}", "wamp.error.no_such_registration">>}

ReleaseFrames ==
    UNION {ReleaseRepliesTo(r) : r \in DOMAIN ops}
    \cup InvocationFrames
    \cup {f \in InterruptFrames : Interrupted(f) = {}}

NextRelease ==
    \/ ConnectSubscribe
    \/ WsOpen
    \/ LogonResume
    \/ Receive(Welcome)
    \/ \E f \in ReleaseFrames : Receive(f)
    \/ \E u \in Uris : Requests = <<>> /\ Register(u, "sequence")
    \/ \E r \in DOMAIN ops : RegisterResume(r)
    \/ \E r \in DOMAIN ops : RegisterRelease(r)
    \/ \E i \in DOMAIN invs :
          invs[i].state = "running" /\ invs[i].out = <<>> /\ HandlerEmit(i)
    \/ \E i \in DOMAIN invs : HandlerComplete(i)
    \/ \E i \in DOMAIN invs : InvocationSettle(i)

SpecRelease == InitCall /\ [][NextRelease]_vars

\* Every kind of operation, seed 100, against a router that answers with
\* ERROR frames naming the request id under any request type, and binds
\* subscriptions and registrations.
RequestType ==
    [call |-> CALL, publish |-> PUBLISH, subscribe |-> SUBSCRIBE,
     register |-> REGISTER, unregister |-> UNREGISTER, unsubscribe |-> UNSUBSCRIBE]

TypedErrors(r) ==
    {<<Num(ERROR), Num(k), Num(r), "{}", "wamp.error.x">> :
        k \in {CALL, PUBLISH, SUBSCRIBE, REGISTER, UNREGISTER}}

TypedRepliesTo(r) ==
    TypedErrors(r) \cup
    CASE ops[r].kind = "subscribe" /\ ops[r].resId = "" ->
            {<<Num(SUBSCRIBED), Num(r), s>> : s \in SubscriptionIds}
      [] ops[r].kind = "register" /\ ~ops[r].closed ->
            {<<Num(REGISTERED), Num(r), g>> : g \in RegistrationIds}
      [] OTHER -> {}

TypedFrames == UNION {TypedRepliesTo(r) : r \in DOMAIN ops}

NextTyped ==
    \/ ConnectSubscribe
    \/ WsOpen
    \/ LogonResume
    \/ Receive(Welcome)
    \/ \E f \in TypedFrames : Receive(f)
    \/ \E u \in Uris, p \in OnePayload : CreateCall(u, p[1], p[2])
    \/ \E c \in callObs : CallSubscribe(c, 0)
    \/ \E u \in Uris, p \in OnePayload : Publish(u, p[1], p[2])
    \/ \E u \in Uris : Subscribe(u)
    \/ \E u \in Uris : Register(u, "sequence")
    \/ \E r \in DOMAIN ops : RegisterResume(r)
    \/ \E r \in DOMAIN ops : RegisterRelease(r)

SpecTyped == InitCall /\ [][NextTyped]_vars

\* Calls, publications, subscriptions and registrations, seed 100, on a
\* transport that may deliver a text that is not JSON at any time; the router
\* answers what it was sent.
AnswersTo(r) ==
    CASE ops[r].kind = "call" ->
            {<<Num(RESULT), Num(r), "{progress:true}", "[1]">>,
             <<Num(RESULT), Num(r), "{}", "[3]">>}
      [] ops[r].kind = "publish" -> {<<Num(PUBLISHED), Num(r), "7">>}
      [] ops[r].kind = "subscribe" ->
            {<<Num(SUBSCRIBED), Num(r), s>> : s \in SubscriptionIds}
            \cup (IF ops[r].resId = "" THEN {} ELSE EventFrames(ops[r].resId))
      [] ops[r].kind = "register" ->
            {<<Num(REGISTERED), Num(r), g>> : g \in RegistrationIds}
      [] OTHER -> {}

AnswerFrames == UNION {AnswersTo(r) : r \in DOMAIN ops}

NextMalformed ==
    \/ ConnectSubscribe
    \/ WsOpen
    \/ LogonResume
    \/ Receive(Welcome)
    \/ \E f \in AnswerFrames : Receive(f)
    \/ ReceiveMalformed
    \/ \E u \in Uris, p \in OnePayload : CreateCall(u, p[1], p[2])
    \/ \E c \in callObs : CallSubscribe(c, 0)
    \/ \E u \in Uris, p \in OnePayload : Publish(u, p[1], p[2])
    \/ \E u \in Uris : Subscribe(u)
    \/ \E u \in Uris : Register(u, "sequence")
    \/ \E r \in DOMAIN ops : RegisterResume(r)

SpecMalformed == InitCall /\ [][NextMalformed]_vars

\* The handshake with responders that answer at once and responders that
\* answer later, against a router that may welcome, challenge or abort.
NextAsyncAuth ==
    \/ ConnectSubscribe
    \/ WsOpen
    \/ LogonResume
    \/ LogonResumeAsync
    \/ \E n \in DOMAIN challengeCalls : ResponderSettles(n)
    \/ \E f \in LogonFrames : Receive(f)

SpecAsyncAuth == Init /\ [][NextAsyncAuth]_vars

\* Subscriptions, seed 100, released at any time, against a broker that
\* answers every SUBSCRIBE once, whenever it gets to it, with SUBSCRIBED and a
\* subscription id of that request's own (5 for request 101, 6 for 102, ...);
\* every step that can be taken is taken eventually.
GrantedTo(r) == Num(r - 96)

Answered(r) == ops[r].rx # <<>> \/ ops[r].late > 0

GrantFrames ==
    {<<Num(SUBSCRIBED), Num(r), GrantedTo(r)>> :
        r \in {q \in DOMAIN ops : ops[q].kind = "subscribe" /\ ~Answered(q)}}

NextGrant ==
    \/ ConnectSubscribe
    \/ WsOpen
    \/ LogonResume
    \/ Receive(Welcome)
    \/ \E f \in GrantFrames : Receive(f)
    \/ \E f \in BrokerEvents("5") : Receive(f)
    \/ \E u \in Uris : Subscribe(u)
    \/ \E r \in DOMAIN ops : SubscribeRelease(r)

SpecGrant == InitCall /\ [][NextGrant]_vars /\ WF_vars(NextGrant)

\* One registration next to a call that stays pending and keeps the inbound
\* stream subscribed, seed 100: a dealer that answers the REGISTER and invokes
\* the procedure as soon as it has, in the same turn of the transport or
\* later; handlers whose sequences complete.
EarlyFrames ==
    UNION {DealerRepliesTo(r) : r \in DOMAIN ops}
    \cup {f \in InvocationFrames : At(f, 4) = "{}"}

NextEarly ==
    \/ ConnectSubscribe
    \/ WsOpen
    \/ LogonResume
    \/ Receive(Welcome)
    \/ \E f \in EarlyFrames : Receive(f)
    \/ \E u \in Uris, p \in OnePayload : Requests = <<>> /\ CreateCall(u, p[1], p[2])
    \/ \E c \in callObs : Requests = <<>> /\ CallSubscribe(c, 0)
    \/ \E u \in Uris : Len(Requests) = 1 /\ Register(u, "sequence")
    \/ \E r \in DOMAIN ops : RegisterResume(r)
    \/ \E i \in DOMAIN invs : HandlerComplete(i)
    \/ \E i \in DOMAIN invs : InvocationSettle(i)

SpecEarly == InitCall /\ [][NextEarly]_vars

\* A call, a subscription and a registration, seed 100, whose consumers
\* release them at any time and then release them again; the router answers
\* what it was sent, each subscription with an id of its own.
AgainFrames ==
    GrantFrames
    \cup {f \in AnswerFrames : f[1] \in {Num(RESULT), Num(REGISTERED)}}

NextAgain ==
    \/ ConnectSubscribe
    \/ WsOpen
    \/ LogonResume
    \/ Receive(Welcome)
    \/ \E f \in AgainFrames : Receive(f)
    \/ \E u \in Uris, p \in OnePayload : CreateCall(u, p[1], p[2])
    \/ \E c \in callObs : CallSubscribe(c, 0)
    \/ \E r \in DOMAIN ops : CallRelease(r)
    \/ \E u \in Uris : Subscribe(u)
    \/ \E r \in DOMAIN ops : SubscribeRelease(r)
    \/ \E u \in Uris : (\A r \in DOMAIN ops : ops[r].kind # "register") /\ Register(u, "sequence")
    \/ \E r \in DOMAIN ops : RegisterResume(r)
    \/ \E r \in DOMAIN ops : RegisterRelease(r)
    \/ \E r \in DOMAIN ops : ReleaseAgain(r)

SpecAgain == InitCall /\ [][NextAgain]_vars

(* ------------------------------------------------------------------ *)
(* Properties                                                         *)
(* ------------------------------------------------------------------ *)
HasWelcome == \E i \in 1..Len(hsRx) : hsRx[i][1] = Num(WELCOME)

\* C1: the k-th frame that carries a freshly allocated request id (CALL,
\* SUBSCRIBE, UNSUBSCRIBE, REGISTER, UNREGISTER, PUBLISH) carries seed + k,
\* where the seed is initialReqId when given and a random id otherwise; so no
\* two such frames of a session carry the same id, and none is sent before
\* the session is established.
C1_RequestIdsSequential ==
    /\ conn # "established" => Requests = <<>>
    /\ conn = "established" =>
        LET seed == nextReqId - Len(Requests) IN
        /\ initialReqId # 0 => seed = initialReqId
        /\ initialReqId = 0 => seed \in 0..16777215
        /\ \A k \in 1..Len(Requests) : Requests[k][2] = Num(seed + k)
        /\ \A i, j \in 1..Len(Requests) :
              i # j => Requests[i][2] # Requests[j][2]

\* C1 witness: with seed 100, a CALL, then a SUBSCRIBE and the UNSUBSCRIBE of
\* its release have been sent, carrying 101, 102, 103.
C1_Witness ==
    /\ initialReqId = 100
    /\ Len(Requests) = 3
    /\ Requests[1][1] = Num(CALL)
    /\ Requests[3][1] = Num(UNSUBSCRIBE)
    /\ Requests[3][2] = "103"

\* C2: without auth, nothing is sent before the socket of the subscribed
\* connect sequence is open; then HELLO(realm, details) is the first frame
\* and the only HELLO; no other frame is sent while no WELCOME was received;
\* the channel is delivered, and a request sent, only after a WELCOME.
C2_HandshakeNoAuth ==
    ~auth =>
        /\ conn \in {"idle", "opening"} => sent = <<>>
        /\ conn \notin {"idle", "opening"} =>
              /\ Len(sent) >= 1
              /\ sent[1] = <<Num(HELLO), "fakeRealm", "{roles}">>
        /\ \A i \in 2..Len(sent) : sent[i][1] # Num(HELLO)
        /\ ~HasWelcome => Len(sent) <= 1
        /\ conn = "established" => HasWelcome
        /\ Requests # <<>> => conn = "established"

\* C2 witness: no auth, the channel was delivered and a first request sent.
C2_Witness ==
    /\ ~auth
    /\ conn = "established"
    /\ Len(sent) = 2
    /\ Requests # <<>>

\* C3: without auth, when the first handshake frame received is a CHALLENGE,
\* the connect sequence fails with 'Received unexpected challenge', the
\* responder is not called, nothing but HELLO is sent, and the channel is not
\* delivered, whatever the transport emits afterwards.
C3_UnexpectedChallenge ==
    (~auth /\ hsRx # <<>> /\ hsRx[1][1] = Num(CHALLENGE)) =>
        /\ conn \in {"resume", "failed"}
        /\ conn = "failed" =>
              connError = <<"Error", "Received unexpected challenge">>
        /\ challengeCalls = <<>>
        /\ Len(sent) = 1
        /\ Requests = <<>>

\* C3 witness: the handshake failed on the challenge and the transport emitted
\* a WELCOME afterwards.
C3_Witness ==
    /\ ~auth
    /\ conn = "failed"
    /\ hsRx # <<>> /\ hsRx[1][1] = Num(CHALLENGE)
    /\ Num(WELCOME) \in lost

RECURSIVE LeadingChallenges(_)
\* The CHALLENGE frames received before the first WELCOME or ABORT.
LeadingChallenges(h) ==
    IF h = <<>> \/ Head(h)[1] # Num(CHALLENGE)
    THEN <<>>
    ELSE <<Head(h)>> \o LeadingChallenges(Tail(h))

IsAuthenticate(f) == f[1] = Num(AUTHENTICATE)

Authenticates == SelectSeq(sent, IsAuthenticate)

\* C4: with auth, HELLO carries authid and authmethods; the responder has been
\* called once, in order, with the (method, extra) of every CHALLENGE received
\* before WELCOME, and for each call one AUTHENTICATE was sent: (sig, {}) for
\* a string result, (sig, dict) for a pair; after a challenge the handshake
\* awaits again; a WELCOME after n challenges delivers the channel with
\* exactly n AUTHENTICATE frames sent.
C4_HandshakeAuth ==
    auth =>
        LET pre     == LeadingChallenges(hsRx)
            pending == conn = "resume" /\ hsMsg[1] = Num(CHALLENGE)
            n       == IF pending THEN Len(pre) - 1 ELSE Len(pre)
            next    == IF Len(hsRx) > Len(pre) THEN hsRx[Len(pre) + 1] ELSE <<"">>
        IN
        /\ sent # <<>> =>
              sent[1] = <<Num(HELLO), "fakeRealm", "{roles,authid,authmethods}">>
        /\ Len(challengeCalls) = n
        /\ Len(Authenticates) = n
        /\ \A k \in 1..n :
              /\ challengeCalls[k][1] = pre[k][2]
              /\ challengeCalls[k][2] = pre[k][3]
              /\ Authenticates[k] =
                    IF challengeCalls[k][3][1] = "str"
                    THEN <<Num(AUTHENTICATE), challengeCalls[k][3][2], "{}">>
                    ELSE <<Num(AUTHENTICATE), challengeCalls[k][3][2],
                           challengeCalls[k][3][3]>>
        /\ (sent # <<>> /\ ~pending /\ Len(hsRx) = Len(pre)) => conn = "await"
        /\ next[1] = Num(WELCOME) => conn \in {"resume", "established"}
        /\ conn = "established" => next[1] = Num(WELCOME)

\* C4 witness: two challenges, answered with a string and with a pair, then
\* WELCOME: the channel is delivered.
C4_Witness ==
    /\ auth
    /\ conn = "established"
    /\ Len(challengeCalls) = 2
    /\ challengeCalls[1][3][1] = "str"
    /\ challengeCalls[2][3][1] = "arr"
    /\ Len(Authenticates) = 2

\* C5: when the first frame received after zero or more challenges is
\* ABORT(details, reason), the connect sequence fails with (details, reason)
\* and the channel is not delivered.
C5_Abort ==
    LET pre == LeadingChallenges(hsRx) IN
    (Len(hsRx) > Len(pre) /\ hsRx[Len(pre) + 1][1] = Num(ABORT)) =>
        /\ conn \in {"resume", "failed"}
        /\ conn = "failed" =>
              connError = <<hsRx[Len(pre) + 1][2], hsRx[Len(pre) + 1][3]>>
        /\ Requests = <<>>

\* C5 witness: a challenge was answered, then ABORT failed the handshake.
C5_Witness ==
    /\ conn = "failed"
    /\ Len(hsRx) >= 2
    /\ hsRx[1][1] = Num(CHALLENGE)
    /\ hsRx[2][1] = Num(ABORT)
    /\ connError = <<"{}", "wamp.error.no_such_realm">>

CallOps == {r \in DOMAIN ops : ops[r].kind = "call"}

\* The positions in the send log of the frames of a kind that name request r.
FramesOf(kind, r) ==
    {k \in 1..Len(sent) : sent[k][1] = Num(kind) /\ sent[k][2] = Num(r)}

IsCall(f) == f[1] = Num(CALL)

\* C6: creating a call sequence sends nothing and starts nothing; every
\* subscription of a call sequence has sent exactly one frame
\* CALL(reqId, {receive_progress:true}, uri, args, dict) under its own request
\* id, and no CALL frame exists without a subscription, so n subscriptions of
\* one call sequence make n CALL frames with n distinct ids and the same uri
\* and arguments.
C6_CallIsCold ==
    /\ [](/\ Len(SelectSeq(sent, IsCall)) = Cardinality(CallOps)
          /\ \A r \in CallOps :
                /\ Cardinality(FramesOf(CALL, r)) = 1
                /\ \A k \in FramesOf(CALL, r) :
                      sent[k] = <<Num(CALL), Num(r), "{receive_progress:true}",
                                  ops[r].obs[1],
                                  IF ops[r].obs[2] = Undefined THEN "null"
                                  ELSE ops[r].obs[2],
                                  ops[r].obs[3]>>)
    /\ [][callObs' # callObs =>
            sent' = sent /\ ops' = ops /\ nextReqId' = nextReqId]_vars

\* C6 witness: one call sequence was subscribed twice: two CALL frames, ids
\* 101 and 102, the same uri and arguments.
C6_Witness ==
    /\ Cardinality(callObs) = 1
    /\ DOMAIN ops = {101, 102}
    /\ ops[101].obs = ops[102].obs
    /\ Len(sent) = 3
    /\ sent[2][2] = "101" /\ sent[3][2] = "102"
    /\ Rest(sent[2], 2) = Rest(sent[3], 2)

\* A RESULT frame that is not marked progress:true ends the call.
IsTerminalResult(f) == f[1] = Num(RESULT) /\ ~(Len(f) >= 3 /\ f[3] = "{progress:true}")

\* The args of a frame are absent, null or the empty array.
NoArgs(f) == Len(f) < 4 \/ f[4] \in {"null", "[]"}

RECURSIVE ExpectedOut(_)
\* What the consumer of a call is to see for the reply frames received.
ExpectedOut(fs) ==
    IF fs = <<>> \/ Head(fs)[1] # Num(RESULT) THEN <<>>
    ELSE IF ~IsTerminalResult(Head(fs))
         THEN <<SubSeq(Head(fs), 4, Len(Head(fs)))>> \o ExpectedOut(Tail(fs))
    ELSE IF NoArgs(Head(fs)) THEN <<>>
    ELSE <<SubSeq(Head(fs), 4, Len(Head(fs)))>>

Last(fs) == fs[Len(fs)]

\* C7: the consumer of call r has seen exactly the payloads of the
\* progressive RESULT frames received for r, in order, then the payload of
\* the first non-progressive RESULT when its args are non-empty; it has been
\* completed when, and only when, that terminal RESULT was received, unless
\* it unsubscribed inside the callback that handed it the last payload;
\* frames for r that arrive after the call ended change nothing.
C7_CallResults ==
    \A r \in CallOps :
        /\ ops[r].out = ExpectedOut(ops[r].rx)
        /\ ops[r].status = "completed" =>
              /\ ops[r].rx # <<>> /\ IsTerminalResult(Last(ops[r].rx))
              /\ ops[r].closed
        /\ (ops[r].rx # <<>> /\ IsTerminalResult(Last(ops[r].rx))) =>
              \/ ops[r].status = "completed"
              \/ ops[r].released /\ ops[r].take = Len(ops[r].out)
        /\ \A k \in 1..(Len(ops[r].rx) - 1) : ~IsTerminalResult(ops[r].rx[k])

\* C7 witness: a progressive and a terminal payload were emitted, the call
\* completed, and a further frame for it arrived afterwards.
C7_Witness ==
    \E r \in CallOps :
        /\ ops[r].rx = <<<<Num(RESULT), Num(r), "{progress:true}", "[2]", "{k:1}">>,
                         <<Num(RESULT), Num(r), "{}", "[3]">>>>
        /\ ops[r].out = <<<<"[2]", "{k:1}">>, <<"[3]">>>>
        /\ ops[r].status = "completed"
        /\ ops[r].take = 0
        /\ ops[r].late = 1

\* C8: when the terminal RESULT of call r has absent or empty args, the call
\* is completed and the consumer has seen only the payloads of the
\* progressive frames before it.
C8_EmptyTerminalResult ==
    \A r \in CallOps :
        LET rx == ops[r].rx IN
        (rx # <<>> /\ IsTerminalResult(Last(rx)) /\ NoArgs(Last(rx))) =>
            /\ ops[r].status = "completed"
            /\ Len(ops[r].out) = Len(rx) - 1
            /\ \A k \in 1..(Len(rx) - 1) :
                  ops[r].out[k] = SubSeq(rx[k], 4, Len(rx[k]))

\* C8 witness: a progressive payload, then a terminal RESULT with empty args
\* and a dict: completed with the one progressive payload.
C8_Witness ==
    \E r \in CallOps :
        /\ Len(ops[r].rx) = 2
        /\ ops[r].rx[2] = <<Num(RESULT), Num(r), "{}", "[]", "{k:1}">>
        /\ ops[r].out = <<<<"[1]">>>>
        /\ ops[r].status = "completed"

\* The keyed streams on which operation q is registered.
Registered(dm, q) ==
    {nk \in UNION {{<<name, key>> : key \in DOMAIN dm.sub[name].divisions} :
                   name \in SubNames} :
        dm.sub[nk[1]].divisions[nk[2]] = q}

\* A step that fails call r leaves every other operation as it was, still
\* registered for its replies on a subscribed transport.
OthersUnaffected ==
    \A r \in CallOps :
        (ops[r].status = "active" /\ r \in DOMAIN ops' /\ ops'[r].status = "failed") =>
            \A q \in DOMAIN ops \ {r} :
                /\ ops'[q] = ops[q]
                /\ Registered(demux', q) = Registered(demux, q)
                /\ \A nk \in Registered(demux, q) :
                      /\ demux'.top.src
                      /\ demux'.sub[nk[1]].src
                      /\ Num(SubKind[nk[1]]) \in DOMAIN demux'.top.divisions

\* The call r ended with an ERROR frame.
EndedInError(r) == ops[r].rx # <<>> /\ Last(ops[r].rx)[1] = Num(ERROR)

Terminated(r) ==
    /\ ops[r].rx # <<>>
    /\ \/ Last(ops[r].rx)[1] = Num(ERROR)
       \/ IsTerminalResult(Last(ops[r].rx))

\* C10: for every call r, CANCEL(r, {mode:kill}) has been sent exactly once
\* when the consumer released the call before it terminated (before its
\* terminal RESULT or an ERROR was received), and not at all otherwise:
\* neither while it is subscribed, nor when it completed or failed, nor when
\* it was released after that.
C10_CancelIffReleasedEarly ==
    /\ \A r \in CallOps :
        /\ Cardinality(FramesOf(CANCEL, r)) =
              IF ops[r].released /\ ~Terminated(r) THEN 1 ELSE 0
        /\ \A k \in FramesOf(CANCEL, r) :
              sent[k] = <<Num(CANCEL), Num(r), "{mode:kill}">>
    /\ \A k \in 1..Len(sent) :
          sent[k][1] = Num(CANCEL) => \E r \in CallOps : k \in FramesOf(CANCEL, r)

\* C10, the case that breaks it: the only frame the call received is its
\* terminal RESULT, the consumer unsubscribed in the callback that handed it
\* the payload, and a CANCEL for the call went out after that RESULT.
C10_CancelAfterTerminalResult ==
    \E r \in CallOps :
        /\ ops[r].rx = <<<<Num(RESULT), Num(r), "{}", "[3]">>>>
        /\ ops[r].out = <<<<"[3]">>>>
        /\ ops[r].take = 1
        /\ ops[r].released
        /\ Last(sent) = <<Num(CANCEL), Num(r), "{mode:kill}">>

\* A step leaves operation q alone: its record and its registrations.
Undisturbed(q) ==
    /\ q \in DOMAIN ops'
    /\ ops'[q] = ops[q]
    /\ Registered(demux', q) = Registered(demux, q)
    /\ Registered(demux, q) # {} => demux'.top.src

\* C11: with several calls active, the consumer of each call has seen what
\* the RESULT frames carrying its own request id amount to, in their arrival
\* order, whatever frames of other calls arrived in between; and a step in
\* which no frame for call q arrives and q's consumer does nothing (another
\* call's RESULT, completion, failure or release) leaves q as it was, still
\* registered for its replies.
C11_CallsSeparated ==
    /\ [](\A r \in CallOps :
            /\ \A k \in 1..Len(ops[r].rx) : ReplyId(ops[r].rx[k]) = Num(r)
            /\ ops[r].out = ExpectedOut(ops[r].rx))
    /\ [][\A q \in CallOps :
            (/\ q \in DOMAIN ops'
             /\ ops'[q].rx = ops[q].rx
             /\ ops'[q].late = ops[q].late
             /\ ops'[q].released = ops[q].released) => Undisturbed(q)]_vars

\* C11 witness: calls 101 and 102 each got a progressive RESULT, 101 also its
\* terminal RESULT: 101 is completed with two payloads, 102 is still active
\* with its own one.
C11_Witness ==
    /\ DOMAIN ops = {101, 102}
    /\ ops[101].rx = <<<<Num(RESULT), "101", "{progress:true}", "[1]">>,
                       <<Num(RESULT), "101", "{}", "[3]">>>>
    /\ ops[102].rx = <<<<Num(RESULT), "102", "{progress:true}", "[2]", "{k:1}">>>>
    /\ ops[101].status = "completed"
    /\ ops[101].out = <<<<"[1]">>, <<"[3]">>>>
    /\ ops[102].status = "active" /\ ~ops[102].closed
    /\ ops[102].out = <<<<"[2]", "{k:1}">>>>
    /\ <<"result", "102">> \in Registered(demux, 102)

PublishOps == {r \in DOMAIN ops : ops[r].kind = "publish"}

\* The frame on the wire for a request with optional args and dict at its end.
WithOptional(head, args, dict) ==
    IF dict # Undefined
    THEN head \o <<IF args = Undefined THEN "null" ELSE args, dict>>
    ELSE IF args # Undefined THEN head \o <<args>>
    ELSE head

\* C12: every publish has sent, when it was called, exactly one frame
\* PUBLISH(reqId, {acknowledge:true}, uri, args, dict); its future is pending
\* until a reply for reqId arrives, resolved with the publication id exactly
\* when the first reply is PUBLISHED, rejected with the error tuple exactly
\* when the first reply is ERROR; once settled it never changes, and replies
\* for other request ids do not settle it.
C12_PublishSettledOnce ==
    /\ [](\A r \in PublishOps :
            LET rx == ops[r].rx IN
            /\ Cardinality(FramesOf(PUBLISH, r)) = 1
            /\ \A k \in FramesOf(PUBLISH, r) :
                  sent[k] = WithOptional(
                      <<Num(PUBLISH), Num(r), "{acknowledge:true}", ops[r].obs[1]>>,
                      ops[r].obs[2], ops[r].obs[3])
            /\ Len(rx) <= 1
            /\ \A k \in 1..Len(rx) : ReplyId(rx[k]) = Num(r)
            /\ rx = <<>> => ops[r].status = "active" /\ ops[r].late = 0
            /\ (rx # <<>> /\ rx[1][1] = Num(PUBLISHED)) =>
                  ops[r].status = "completed" /\ ops[r].out = <<<<rx[1][3]>>>>
            /\ (rx # <<>> /\ rx[1][1] = Num(ERROR)) =>
                  /\ ops[r].status = "failed"
                  /\ ops[r].err = SubSeq(rx[1], 4, Len(rx[1]))
                  /\ ops[r].out = <<>>)
    /\ [][\A r \in PublishOps :
            ops[r].status # "active" =>
                /\ r \in DOMAIN ops'
                /\ ops'[r].status = ops[r].status
                /\ ops'[r].out = ops[r].out
                /\ ops'[r].err = ops[r].err]_vars

\* C12 witness: publish 101 without payload was resolved with 7, publish 102
\* was rejected with (details, reason, args, dict), and a further reply for 101
\* arrived after it was settled.
C12_Witness ==
    /\ PublishOps = {101, 102}
    /\ sent[2] = <<Num(PUBLISH), "101", "{acknowledge:true}", "thing">>
    /\ ops[101].status = "completed" /\ ops[101].out = <<<<"7">>>>
    /\ ops[101].late = 1
    /\ ops[102].status = "failed"
    /\ ops[102].err = <<"{d:1}", "wamp.error.z", "[9]", "{k:1}">>

SubscribeOps == {r \in DOMAIN ops : ops[r].kind = "subscribe"}

\* The (args, dict) of the EVENT frames fs, in order.
EventPayloads(fs) == [k \in 1..Len(fs) |-> SubSeq(fs[k], 5, Len(fs[k]))]

\* C13: every subscribe consumer has been handed, exactly once and in arrival
\* order, the (args, dict) of every EVENT frame that carried its subscription
\* id between the receipt of its SUBSCRIBED and its release, and nothing else:
\* no event from before SUBSCRIBED or after the release.
C13_EventsDelivered ==
    \A r \in SubscribeOps : ops[r].out = EventPayloads(ops[r].ev)

\* C13, the case that breaks it: two consumers were both answered with
\* subscription id 5 and both are still subscribed; an EVENT for 5 arrived
\* after that and only the consumer that subscribed last was handed it.
C13_SharedIdStarvesFirst ==
    /\ SubscribeOps = {101, 102}
    /\ ops[101].resId = "5" /\ ops[102].resId = "5"
    /\ ~ops[101].closed /\ ~ops[102].closed
    /\ ops[101].ev = <<<<Num(EVENT), "5", "77", "{}", "[1]">>>>
    /\ ops[102].ev = ops[101].ev
    /\ ops[101].out = <<>>
    /\ ops[102].out = <<<<"[1]">>>>

UnsubscribeOps == {r \in DOMAIN ops : ops[r].kind = "unsubscribe"}

IsUnsubscribe(f) == f[1] = Num(UNSUBSCRIBE)

\* C14: the step in which a consumer releases its subscribe sequence after
\* SUBSCRIBED(reqId, subsId) sends UNSUBSCRIBE(reqId', subsId) under the next
\* fresh request id and nothing else; a release before SUBSCRIBED or after the
\* sequence failed sends nothing; no other UNSUBSCRIBE is ever sent for that
\* consumer; and a reply to the UNSUBSCRIBE (UNSUBSCRIBED or ERROR for reqId')
\* changes no operation, no registration and sends nothing.
C14_UnsubscribeOnRelease ==
    /\ [](/\ \A s \in BrokerSubscriptionIds :
                Cardinality({k \in 1..Len(sent) :
                                IsUnsubscribe(sent[k]) /\ sent[k][3] = s})
                = Cardinality({r \in SubscribeOps : ops[r].resId = s /\ ops[r].closed})
          /\ Len(SelectSeq(sent, IsUnsubscribe)) = Cardinality(UnsubscribeOps)
          /\ \A u \in UnsubscribeOps :
                /\ Cardinality(FramesOf(UNSUBSCRIBE, u)) = 1
                /\ \A k \in FramesOf(UNSUBSCRIBE, u) :
                      sent[k] = <<Num(UNSUBSCRIBE), Num(u), ops[u].obs[1]>>
                /\ \A k \in 1..Len(sent) :
                      (sent[k][2] = Num(u)) => IsUnsubscribe(sent[k])
                /\ ops[u].status = "active")
    /\ [][\A r \in SubscribeOps :
            (~ops[r].released /\ ops'[r].released) =>
                IF ops[r].resId # "" /\ ~ops[r].closed
                THEN /\ sent' = Append(sent, <<Num(UNSUBSCRIBE), Num(nextReqId + 1),
                                               ops[r].resId>>)
                     /\ nextReqId' = nextReqId + 1
                     /\ nextReqId + 1 # r
                ELSE sent' = sent]_vars
    /\ [][\A u \in UnsubscribeOps :
            (u \in DOMAIN ops' /\ ops'[u].late # ops[u].late) =>
                /\ sent' = sent
                /\ demux' = demux
                /\ \A q \in DOMAIN ops \ {u} : ops'[q] = ops[q]
                /\ ops'[u] = [ops[u] EXCEPT !.late = @ + 1]]_vars

\* C14 witness: consumer 101 was released after SUBSCRIBED(101, 5); the one
\* UNSUBSCRIBE(103, 5) went out and its reply arrived; consumer 102, under
\* id 6, is still active and was handed an event after that.
C14_Witness ==
    /\ SubscribeOps = {101, 102}
    /\ ops[101].released /\ ops[101].resId = "5" /\ ops[101].status = "active"
    /\ SelectSeq(sent, IsUnsubscribe) = <<<<Num(UNSUBSCRIBE), "103", "5">>>>
    /\ ops[103].kind = "unsubscribe" /\ ops[103].late = 1
    /\ ops[102].resId = "6" /\ ~ops[102].closed
    /\ Len(ops[102].out) = 1

RegisterOps == {r \in DOMAIN ops : ops[r].kind = "register"}

\* The invocation tasks the listener of registration r started.
TasksOf(r) == {i \in DOMAIN invs : invs[i].reg = r}

\* What C15 says of a registration in every state, given the value `rejection`
\* assigns to an ERROR frame.
RegisterSettles(r, rejection(_)) ==
    /\ Cardinality(FramesOf(REGISTER, r)) = 1
    /\ \A k \in FramesOf(REGISTER, r) :
          sent[k] = <<Num(REGISTER), Num(r), "{receive_progress:true}", ops[r].obs[1]>>
    /\ Len(ops[r].rx) <= 1
    /\ ops[r].rx = <<>> =>
          /\ ops[r].pc = "await" /\ ops[r].status = "active"
          /\ ops[r].err = <<>> /\ ops[r].resId = ""
    /\ ops[r].rx # <<>> /\ ops[r].rx[1][1] = Num(REGISTERED) =>
          /\ ops[r].pc \in {"resume", "bound"}
          /\ ops[r].status = IF ops[r].pc = "bound" THEN "completed" ELSE "active"
          /\ ops[r].resId = ops[r].rx[1][3]
          /\ ops[r].err = <<>>
    /\ ops[r].rx # <<>> /\ ops[r].rx[1][1] = Num(ERROR) =>
          /\ ops[r].pc \in {"reject", "done"}
          /\ ops[r].status = IF ops[r].pc = "done" THEN "failed" ELSE "active"
          /\ ops[r].err = rejection(ops[r].rx[1])
          /\ TasksOf(r) = {}

\* REGISTER goes out in the step that starts the registration.
RegisterSendsAtOnce ==
    \A r \in DOMAIN ops' \ DOMAIN ops :
        ops'[r].kind = "register" =>
            /\ r = nextReqId + 1
            /\ sent' = Append(sent, <<Num(REGISTER), Num(r), "{receive_progress:true}",
                                      ops'[r].obs[1]>>)

DetailsAndReason(f) == <<f[4], f[5]>>

IsFor(i, f) ==
    \/ f[1] = Num(YIELD) /\ At(f, 2) = Num(i)
    \/ f[1] = Num(ERROR) /\ At(f, 2) = Num(INVOCATION) /\ At(f, 3) = Num(i)

SentFor(i) == SelectSeq(sent, LAMBDA f : IsFor(i, f))

\* The tasks of handlers that returned a sequence, by mode.
Tasks(progress) ==
    {i \in DOMAIN invs : invs[i].progress = progress /\ invs[i].state # "thrown"}

\* One YIELD(id, {progress:true}, rspArgs, rspDict) per emitted payload.
ProgressYields(i) ==
    [k \in 1..Len(invs[i].out) |->
        <<Num(YIELD), Num(i), "{progress:true}">> \o invs[i].out[k]]

\* C16: in the progressive mode the frames sent for an invocation are one
\* YIELD(id, {progress:true}, rspArgs, rspDict) per payload the handler's
\* sequence emitted, in emission order, and once the sequence has completed one
\* more frame, YIELD(id, {}) without payload: k payloads, k+1 frames.
C16_ProgressiveYields ==
    \A i \in Tasks(TRUE) :
        /\ invs[i].state = "running" => SentFor(i) = ProgressYields(i)
        /\ invs[i].state = "completed" =>
              /\ SentFor(i) = Append(ProgressYields(i), <<Num(YIELD), Num(i), "{}">>)
              /\ Len(SentFor(i)) = Len(invs[i].out) + 1

\* C16 witness: a progressive invocation whose handler emitted two payloads and
\* completed, with its three YIELD frames on the wire.
C16_Witness ==
    \E i \in Tasks(TRUE) :
        /\ invs[i].state = "completed"
        /\ invs[i].out = <<<<"[1]", "{k:1}">>, <<"[2]">>>>
        /\ SentFor(i) = <<<<"70", Num(i), "{progress:true}", "[1]", "{k:1}">>,
                          <<"70", Num(i), "{progress:true}", "[2]">>,
                          <<"70", Num(i), "{}">>>>

\* C17: in the non-progressive mode nothing is sent for an invocation while
\* the handler's sequence runs, nor before the callback of the promise has
\* run; after it, exactly one frame was sent for a completed sequence:
\* YIELD(id, {}) with the last emitted payload, or without payload if nothing
\* was emitted.  Earlier payloads are never sent.
C17_NonProgressiveYield ==
    \A i \in Tasks(FALSE) :
        /\ invs[i].state = "running" \/ invs[i].pc \in {"then", "catch"} =>
              SentFor(i) = <<>>
        /\ invs[i].state = "completed" =>
              /\ invs[i].pc \in {"then", "done"}
              /\ invs[i].pc = "done" =>
                    SentFor(i) =
                        <<<<Num(YIELD), Num(i), "{}">> \o
                          (IF invs[i].out = <<>>
                           THEN <<>>
                           ELSE invs[i].out[Len(invs[i].out)])>>

\* C17 witness: a non-progressive invocation whose handler emitted two payloads
\* and completed; the one YIELD on the wire carries the second.
C17_Witness ==
    \E i \in Tasks(FALSE) :
        /\ invs[i].state = "completed" /\ invs[i].pc = "done"
        /\ invs[i].out = <<<<"[1]", "{k:1}">>, <<"[2]">>>>
        /\ SentFor(i) = <<<<"70", Num(i), "{}", "[2]">>>>

IsInvocationError(f) == f[1] = Num(ERROR) /\ At(f, 2) = Num(INVOCATION)

\* ERROR(INVOCATION, id, {}, e.uri or "wamp.error", [e.message or {error:e}])
ErrorFor(i, e) ==
    <<Num(ERROR), Num(INVOCATION), Num(i), "{}",
      IF e.uri \in {Undefined, ""} THEN "wamp.error" ELSE e.uri,
      IF e.message \in {Undefined, ""}
      THEN "[{error:" \o e.json \o "}]"
      ELSE "[" \o e.message \o "]">>

\* The handler of task i failed and every callback that reacts to it has run.
HandlerFailed(i) ==
    \/ invs[i].state = "thrown"
    \/ invs[i].state = "failed" /\ invs[i].pc # "catch"

\* The failure of task i was answered with its one ERROR frame.
FailureAnswered(i) ==
    /\ Len(SelectSeq(SentFor(i), IsInvocationError)) = 1
    /\ invs[i].state = "failed" =>
          Last(SentFor(i)) = ErrorFor(i, invs[i].err[1])

\* The listener of every settled, unreleased registration is in place.
ListenersBound ==
    \A r \in RegisterOps :
        ops[r].pc = "bound" /\ ~ops[r].released =>
            /\ ops[r].resId \in DOMAIN demux.sub["invocation"].divisions
            /\ demux.sub["invocation"].divisions[ops[r].resId] = r

\* A step in which a handler fails leaves everything else as it was.
FailureIsLocal ==
    \A i \in DOMAIN invs' :
        (i \notin DOMAIN invs \/ invs[i].state = "running")
        /\ invs'[i].state \in {"failed", "thrown"} =>
            /\ ops' = ops
            /\ conn' = conn /\ connError' = connError
            /\ \A j \in DOMAIN invs \ {i} : invs'[j] = invs[j]
            /\ demux'.top.src = demux.top.src
            /\ Without(demux'.top.divisions, Num(INTERRUPT))
                  = Without(demux.top.divisions, Num(INTERRUPT))
            /\ \A n \in SubNames \ {"interrupt"} : demux'.sub[n] = demux.sub[n]
            /\ \A j \in DOMAIN invs \ {i} :
                  Num(j) \in DOMAIN demux.sub["interrupt"].divisions =>
                      Num(j) \in DOMAIN demux'.sub["interrupt"].divisions

\* C18 as stated: a failure of a callee handler is answered with one
\* ERROR(INVOCATION, id, {}, e.uri or "wamp.error", [e.message or {error:e}])
\* in both modes, and it ends nothing else: the registration keeps its
\* listener and every other operation and task goes on.
C18_HandlerFailureAnswered ==
    /\ [](\A i \in DOMAIN invs : HandlerFailed(i) => FailureAnswered(i))
    /\ []ListenersBound
    /\ [][FailureIsLocal]_vars

\* The failure of the sequence a handler returned is answered with its ERROR
\* frame and ends nothing else.
SequenceFailureAnswered ==
    /\ [](\A i \in DOMAIN invs :
            HandlerFailed(i) /\ invs[i].state = "failed" => FailureAnswered(i))
    /\ []ListenersBound
    /\ [][FailureIsLocal]_vars

\* C18, the failing case: the registered function threw when it was called for
\* invocation 1000; nothing was sent for 1000, while the registration went on
\* to serve invocation 1001.
C18_ThrownHandlerUnanswered ==
    /\ DOMAIN invs = {1000, 1001}
    /\ invs[1000].state = "thrown"
    /\ SentFor(1000) = <<>>
    /\ invs[1001].reg = invs[1000].reg
    /\ ListenersBound

\* The place in the log of the ERROR frame sent for invocation i.
ErrorAt(i) ==
    CHOOSE k \in 1..Len(sent) : IsFor(i, sent[k]) /\ IsInvocationError(sent[k])

CancelledError(i) ==
    <<Num(ERROR), Num(INVOCATION), Num(i), "{}", "wamp.error.cancelled",
      "[function call has been cancelled]">>

\* What C19 says of the tasks in every state; cleanupFirst(i) tells whether the
\* cleanup hook of task i has to run before its ERROR frame is written.
InterruptCancels(cleanupFirst(_)) ==
    \A i \in DOMAIN invs :
        /\ invs[i].kill <=> invs[i].state = "interrupted"
        /\ invs[i].state = "interrupted" =>
              /\ invs[i].cleanup # <<>>
              /\ IF invs[i].pc = "catch"
                 THEN SentFor(i) = <<>>
                 ELSE /\ Last(SentFor(i)) = CancelledError(i)
                      /\ Len(SelectSeq(SentFor(i), IsInvocationError)) = 1
                      /\ IF cleanupFirst(i)
                         THEN invs[i].cleanup[1] < ErrorAt(i)
                         ELSE invs[i].cleanup[1] = ErrorAt(i)

\* The step that interrupts a task changes no other task, and nothing is sent
\* for an interrupted task once its ERROR frame is out.
InterruptIsLocal ==
    \A i \in DOMAIN invs :
        /\ invs[i].state = "running" /\ invs'[i].state = "interrupted" =>
              \A j \in DOMAIN invs \ {i} : invs'[j] = invs[j]
        /\ invs[i].state = "interrupted" /\ invs[i].pc # "catch" =>
              SentFor(i)' = SentFor(i)

Always(i) == TRUE

NonProgressive(i) == ~invs[i].progress

\* C19 as stated: an INTERRUPT(id) that arrives while the handler's sequence of
\* invocation id runs cancels the sequence, its cleanup hook runs, and then
\* ERROR(INVOCATION, id, {}, "wamp.error.cancelled", ["function call has been
\* cancelled"]) is sent; no YIELD for id follows; an INTERRUPT for another id
\* does not cancel it.
C19_CleanupThenError ==
    /\ []InterruptCancels(Always)
    /\ [][InterruptIsLocal]_vars

\* C19, amended: the same, except for the order: in the progressive mode the
\* ERROR frame is written first and the cleanup hook runs right after it, in
\* the same delivery; in the non-progressive mode the cleanup hook runs in the
\* delivery and the ERROR frame is written later, by the promise's callback.
C19_InterruptCancels ==
    /\ []InterruptCancels(NonProgressive)
    /\ [][InterruptIsLocal]_vars

\* C19 witness: the progressive invocation 1000 was interrupted, its ERROR
\* frame is on the wire and its cleanup hook ran right after that frame was
\* written, while invocation 1001 is still running.
C19_Witness ==
    /\ DOMAIN invs = {1000, 1001}
    /\ invs[1000].state = "interrupted" /\ invs[1000].progress
    /\ Last(SentFor(1000)) = CancelledError(1000)
    /\ invs[1000].cleanup = <<ErrorAt(1000)>>
    /\ invs[1001].state = "running" /\ ~invs[1001].kill

\* A terminal frame: a YIELD without progress, or an ERROR(INVOCATION, ...).
IsTerminalFrame(f) ==
    \/ f[1] = Num(YIELD) /\ At(f, 3) # "{progress:true}"
    \/ IsInvocationError(f)

TerminalFrames(i) == SelectSeq(SentFor(i), IsTerminalFrame)

\* The sequence of task i has ended and the callbacks reacting to that have run.
Ended(i) ==
    /\ invs[i].state \in {"completed", "failed", "interrupted"}
    /\ invs[i].pc \notin {"then", "catch"}

\* C20: for every invocation task at most one terminal frame (a YIELD without
\* progress, or an ERROR(INVOCATION, ...)) is ever sent; exactly one has been
\* sent once the handler's sequence has completed, failed or been interrupted
\* and the callback that reacts to it has run; it is the last frame sent for
\* that invocation id: a late INTERRUPT or a late emission of the handler
\* sends nothing.
C20_OneTerminalFrame ==
    /\ [](\A i \in DOMAIN invs :
            /\ Len(TerminalFrames(i)) <= 1
            /\ Ended(i) => Len(TerminalFrames(i)) = 1
            /\ TerminalFrames(i) # <<>> =>
                  Ended(i) /\ IsTerminalFrame(Last(SentFor(i))))
    /\ [][\A i \in DOMAIN invs :
            /\ TerminalFrames(i) # <<>> => SentFor(i)' = SentFor(i)
            /\ invs'[i].late # invs[i].late \/ invs'[i].intr # invs[i].intr =>
                  sent' = sent]_vars

\* C20 witness: a task that ended with its one terminal frame, after which
\* both an INTERRUPT for its id arrived and its handler emitted once more.
C20_Witness ==
    \E i \in DOMAIN invs :
        /\ Ended(i)
        /\ Len(TerminalFrames(i)) = 1
        /\ invs[i].intr = 1 /\ invs[i].late = 1

UnregisterOps == {u \in DOMAIN ops : ops[u].kind = "unregister"}

IsUnregister(f) == f[1] = Num(UNREGISTER)

\* In every state: a released registration has its one UNREGISTER on the wire
\* and no invocation listener, an unreleased one has sent none.
ReleasedUnregisters ==
    /\ Len(SelectSeq(sent, IsUnregister)) = Cardinality(UnregisterOps)
    /\ Cardinality(UnregisterOps)
         = Cardinality({r \in RegisterOps : ops[r].released})
    /\ \A u \in UnregisterOps :
          /\ FramesOf(UNREGISTER, u) # {}
          /\ \A k \in FramesOf(UNREGISTER, u) :
                sent[k] = <<Num(UNREGISTER), Num(u), ops[u].obs[1]>>
          /\ \E r \in RegisterOps : ops[r].released /\ ops[r].resId = ops[u].obs[1]
    /\ \A r \in RegisterOps :
          ops[r].released =>
              ops[r].resId \notin DOMAIN demux.sub["invocation"].divisions

\* The step that releases the handle writes UNREGISTER under the next fresh
\* request id and nothing else; after it no task is started for the
\* registration, whatever arrives.
ReleaseStep ==
    \A r \in RegisterOps :
        /\ ~ops[r].released /\ ops'[r].released =>
              /\ sent' = Append(sent, <<Num(UNREGISTER), Num(nextReqId + 1),
                                        ops[r].resId>>)
              /\ nextReqId' = nextReqId + 1
              /\ nextReqId + 1 \notin DOMAIN ops
        /\ ops[r].released =>
              {i \in DOMAIN invs' : invs'[i].reg = r} = TasksOf(r)

\* The step in which a reply to the UNREGISTER arrives sends nothing and
\* changes no other operation, no task and not the connection.
UnregisterReplyStep ==
    \A u \in UnregisterOps :
        ops'[u] # ops[u] =>
            /\ sent' = sent
            /\ invs' = invs
            /\ conn' = conn /\ connError' = connError
            /\ \A q \in DOMAIN ops \ {u} : ops'[q] = ops[q]
            /\ ops'[u].kind = "unregister"

\* C21: releasing the registration handle sends UNREGISTER(reqId',
\* registrationId) under a freshly allocated reqId' and releases the
\* invocation listener, so that no INVOCATION that arrives later invokes the
\* handler; an ERROR (or UNREGISTERED) reply to the UNREGISTER sends nothing
\* and fails nothing.
C21_ReleaseUnregisters ==
    /\ []ReleasedUnregisters
    /\ [][ReleaseStep]_vars
    /\ [][UnregisterReplyStep]_vars

\* C21 witness: registration 101 (id 9) was released, UNREGISTER(102, 9) is on
\* the wire, an INVOCATION for 9 arrived afterwards and started no task, and
\* the ERROR reply to 102 arrived.
C21_Witness ==
    /\ 101 \in RegisterOps /\ ops[101].released
    /\ SelectSeq(sent, IsUnregister) = <<<<Num(UNREGISTER), "102", "9">>>>
    /\ Len(ops[101].ev) = 1 /\ invs = <<>>
    /\ 102 \in UnregisterOps /\ ops[102].err # <<>>
    /\ conn = "established"

\* The tasks whose registration handle has been released.
Orphans == {i \in DOMAIN invs : ops[invs[i].reg].released}

\* In every state a task of a released registration is as any other task: while
\* it runs it is subscribed to interrupt$(id) and its progress YIELDs are on
\* the wire, an INTERRUPT that arrived cancelled it, and once it has ended it
\* has its one terminal frame.
OrphansRun ==
    \A i \in Orphans :
        /\ invs[i].state = "running" =>
              /\ demux.top.src
              /\ Num(INTERRUPT) \in DOMAIN demux.top.divisions
              /\ Num(i) \in DOMAIN demux.sub["interrupt"].divisions
              /\ SentFor(i) = IF invs[i].progress THEN ProgressYields(i) ELSE <<>>
        /\ invs[i].kill <=> invs[i].state = "interrupted"
        /\ Len(TerminalFrames(i)) <= 1
        /\ Ended(i) =>
              /\ Len(TerminalFrames(i)) = 1
              /\ IsTerminalFrame(Last(SentFor(i)))
              /\ invs[i].progress =>
                    SubSeq(SentFor(i), 1, Len(SentFor(i)) - 1) = ProgressYields(i)

\* The release step itself touches no task and no interrupt$ subscription.
ReleaseSparesTasks ==
    \A r \in RegisterOps :
        ~ops[r].released /\ ops'[r].released =>
            /\ invs' = invs
            /\ demux'.sub["interrupt"] = demux.sub["interrupt"]

\* C30: releasing the registration handle cancels no running invocation task:
\* the release step leaves every task and its interrupt$ subscription as they
\* were, and afterwards each such task still sends its YIELD frames, is still
\* cancelled by an INTERRUPT for its id, and ends with exactly one terminal
\* frame.
C30_ReleaseSparesTasks ==
    /\ []OrphansRun
    /\ [][ReleaseSparesTasks]_vars

\* C30 witness: the progressive task 1000 was running when the handle was
\* released; after the UNREGISTER it sent a progress YIELD and was then
\* interrupted, ending with its ERROR frame.
C30_Witness ==
    /\ 1000 \in Orphans
    /\ invs[1000].state = "interrupted"
    /\ \E k \in 1..Len(sent) :
          /\ IsUnregister(sent[k])
          /\ Len(sent) = k + 2
          /\ sent[k + 1] = <<Num(YIELD), "1000", "{progress:true}", "[1]", "{k:1}">>
          /\ sent[k + 2] = CancelledError(1000)

(* ------------------------------------------------------------------ *)
(* divide: routing                                                    *)
(* ------------------------------------------------------------------ *)
Kids == DOMAIN dv.kids

\* The consumer divisions holds for key k, 0 when there is none.
RegisteredFor(k) == IF k \in DOMAIN dv.d.divisions THEN dv.d.divisions[k] ELSE 0

\* The base emitted an item in this step.
ItemStep == Len(dv'.items) = Len(dv.items) + 1

\* What consumer c has are items of its own key, in the order of arrival.
InArrivalOrder(c) ==
    LET got == dv.kids[c].got
    IN /\ \A j \in DOMAIN got : got[j] \in DOMAIN dv.items /\
                                dv.items[got[j]] = dv.kids[c].key
       /\ \A j, k \in DOMAIN got : j < k => got[j] < got[k]

\* The item of this step is appended for the consumer registered for its key
\* and for nobody else.
RoutedToRegistered ==
    LET n == Len(dv'.items)
        key == dv'.items[n]
    IN \A c \in Kids :
           dv'.kids[c].got = IF RegisteredFor(key) = c
                             THEN Append(dv.kids[c].got, n)
                             ELSE dv.kids[c].got

\* C24: every item of the base is delivered to the consumer registered for
\* the item's key and to no other consumer, and what each consumer has are
\* the items of its key in the order the base emitted them, however the items
\* of different keys interleave.
C24_RoutedInOrder ==
    /\ [](\A c \in Kids : InArrivalOrder(c))
    /\ [](\A k \in DOMAIN dv.d.divisions : dv.kids[dv.d.divisions[k]].key = k)
    /\ [][ItemStep => RoutedToRegistered]_vars

\* Two consumers of different keys got the interleaved items 1, 2, 1 apart:
\* the first and the third went to one, the second to the other.
C24_Witness ==
    \E a, b \in Kids :
        /\ dv.kids[a].key # dv.kids[b].key
        /\ dv.kids[a].got = <<1, 3>>
        /\ dv.kids[b].got = <<2>>

(* ------------------------------------------------------------------ *)
(* divide: unmatched items                                            *)
(* ------------------------------------------------------------------ *)
\* The item of this step has no registered consumer: it is dropped with a
\* warning and no consumer observes anything.
DroppedWhenUnmatched ==
    LET n == Len(dv'.items)
    IN RegisteredFor(dv'.items[n]) = 0 => /\ dv'.kids = dv.kids
                                          /\ dv'.warned = dv.warned \cup {n}
                                          /\ dv'.d = dv.d

\* Nothing a consumer has arrived before it subscribed, and no dropped item
\* was delivered to anybody afterwards.
NotBuffered ==
    \A c \in Kids : \A j \in DOMAIN dv.kids[c].got :
        /\ dv.kids[c].got[j] > dv.kids[c].since
        /\ dv.kids[c].got[j] \notin dv.warned

\* C25: an item whose key has no registered consumer when it arrives is
\* dropped, changes no consumer's observations, and is not buffered: a
\* consumer that registers for that key later never receives it.
C25_UnmatchedDropped ==
    /\ []NotBuffered
    /\ [][ItemStep => DroppedWhenUnmatched]_vars

\* An item was dropped, a consumer subscribed its key afterwards and has
\* received a later item of that key.
C25_Witness ==
    \E c \in Kids : \E n \in dv.warned :
        /\ dv.items[n] = dv.kids[c].key
        /\ n <= dv.kids[c].since
        /\ dv.kids[c].got # <<>>

(* ------------------------------------------------------------------ *)
(* divide: the base subscription is refcounted                        *)
(* ------------------------------------------------------------------ *)
\* The consumers whose subscription is open.
Active == {c \in Kids : dv.kids[c].state = "active"}

\* Base subscriptions that were made and not torn down.
BaseHeld == dv.nSubscribed - dv.nUnsubscribed

\* C26: creating keyed streams subscribes nothing; while the base has not
\* ended, the base is subscribed once as long as some keyed consumer is
\* subscribed and not at all otherwise: subscriptions minus releases of the
\* base is 1 if some consumer is active and 0 if none is.
C26_Refcount ==
    /\ dv.kids = <<>> => dv.nSubscribed = 0
    /\ dv.ends = <<>> => BaseHeld = (IF Active # {} THEN 1 ELSE 0)

\* What the code keeps instead: the base is subscribed exactly while the
\* registry holds an entry.
RefcountFollowsRegistry ==
    /\ dv.kids = <<>> => dv.nSubscribed = 0
    /\ dv.d.src <=> BaseHeld = 1
    /\ dv.d.src \/ BaseHeld = 0
    /\ dv.ends = <<>> => (dv.d.src <=> DOMAIN dv.d.divisions # {})

\* A consumer is still subscribed, the base never ended, and yet the base
\* subscription was torn down: the consumer is cut off.
C26_ActiveWithoutBase ==
    /\ dv.ends = <<>>
    /\ Active # {}
    /\ BaseHeld = 0
    /\ dv.nUnsubscribed = 1

(* ------------------------------------------------------------------ *)
(* divide: termination of the base                                    *)
(* ------------------------------------------------------------------ *)
\* The base ended in this step.
EndStep == Len(dv'.ends) = Len(dv.ends) + 1

\* The consumers the registry holds.
Listening == {dv.d.divisions[k] : k \in DOMAIN dv.d.divisions}

\* How consumer c must look after the end <<kind, e>> of the base.
EndedLike(c, end) ==
    IF end[1] = "complete"
    THEN dv'.kids[c].state = "completed" /\ dv'.kids[c].err = <<>>
    ELSE dv'.kids[c].state = "failed" /\ dv'.kids[c].err = <<end[2]>>

\* C27: when the base completes, every consumer active at that moment
\* completes; when the base fails with a cause e, whatever e is, undefined
\* included, every consumer active at that moment fails with e and none
\* completes normally.
C27_TerminationPropagates ==
    [][EndStep => \A c \in Listening : EndedLike(c, dv'.ends[Len(dv'.ends)])]_vars

\* The same for the ends the code tells apart: a completion, and a failure
\* whose cause is not undefined.
DefinedCausePropagates ==
    [][EndStep /\ dv'.ends[Len(dv'.ends)] # <<"error", Undefined>>
         => \A c \in Listening : EndedLike(c, dv'.ends[Len(dv'.ends)])]_vars

\* The base failed with cause undefined and a consumer completed normally.
C27_FailureSeenAsCompletion ==
    \E c \in Kids :
        /\ dv.kids[c].end # 0
        /\ dv.ends[dv.kids[c].end] = <<"error", Undefined>>
        /\ dv.kids[c].state = "completed"

(* ------------------------------------------------------------------ *)
(* divide: one consumer per key                                       *)
(* ------------------------------------------------------------------ *)
\* A consumer subscribed in this step.
SubscribeStep == Len(dv'.kids) = Len(dv.kids) + 1 /\ dv'.ends = dv.ends

\* The consumer that subscribes in this step takes the entry of its key,
\* whoever held it.
TakesTheKey ==
    LET c == Len(dv'.kids)
    IN /\ dv'.kids[c].key \in DOMAIN dv'.d.divisions
       /\ dv'.d.divisions[dv'.kids[c].key] = c

\* The item of this step reaches nobody but the latest consumer of its key.
OnlyTheLatest ==
    \A a, b \in Kids :
        a < b /\ dv.kids[a].key = dv.kids[b].key => dv'.kids[a].got = dv.kids[a].got

\* Nothing that arrived after a later consumer subscribed the key is with
\* an earlier consumer of that key.
EarlierGotNoMore ==
    \A a, b \in Kids :
        a < b /\ dv.kids[a].key = dv.kids[b].key
            => \A j \in DOMAIN dv.kids[a].got : dv.kids[a].got[j] <= dv.kids[b].since

Newcomers == (DOMAIN dv'.kids) \ Kids

\* A consumer that subscribed from inside a callback of the termination is
\* registered when the termination is over, and the base is subscribed for it.
NewcomersKept ==
    \A c \in Newcomers :
        /\ dv'.kids[c].state = "active"
        /\ dv'.kids[c].key \in DOMAIN dv'.d.divisions
        /\ dv'.d.divisions[dv'.kids[c].key] = c
        /\ dv'.d.src

\* The teardowns that run during the termination release nothing: the one
\* base subscription that ended is torn down, and no other.
OneBaseRelease == dv'.nUnsubscribed = dv.nUnsubscribed + 1

\* C29: when the base completes or fails, the registry is cleared before any
\* consumer is told, so that a consumer teardown that runs during the
\* propagation finds no entry to remove and releases no base subscription,
\* and a consumer that registers from inside a completion or failure callback
\* is not discarded by the propagation.
C29_RegistryClearedFirst ==
    [][EndStep => NewcomersKept /\ OneBaseRelease]_vars

\* Without a consumer that registers from inside a callback, the order is not
\* observable: one base release, empty registry, base not subscribed.
QuietTermination ==
    [][EndStep /\ Newcomers = {}
         => OneBaseRelease /\ dv'.d = EmptyDivide]_vars

\* The base ended, every other consumer was told, and a consumer that
\* subscribed from inside a callback is subscribed but in no registry, with
\* no base subscription behind it.
C29_NewcomerDiscarded ==
    \E c \in Active :
        /\ dv.ends # <<>>
        /\ c \notin Listening
        /\ ~dv.d.src
        /\ \A o \in Kids \ {c} : dv.kids[o].end # 0

(* ------------------------------------------------------------------ *)
(* The connect sequence as a resource                                 *)
(* ------------------------------------------------------------------ *)
\* Sockets that were made and not closed.
SocketsOpen == sock.made - sock.closed

\* C22: the connect sequence is a resource: no socket is made before it is
\* subscribed, a subscription makes one socket, and once the consumer has
\* released its subscription that socket is closed, whether the handshake was
\* still pending, the session was established and idle, or operations on the
\* channel were still active.
C22_SocketFollowsConsumer ==
    /\ conn = "idle" => sock.made = 0
    /\ conn # "idle" /\ sock.held => sock.made = 1
    /\ conn # "idle" /\ ~sock.held => sock.made = 1 /\ sock.closed = 1

\* What the code keeps instead: a socket is open exactly while webSocket$ has
\* a subscriber, be it the connect consumer or the channel's inbound stream.
SocketFollowsSubscribers ==
    /\ conn = "idle" => sock.made = 0
    /\ SocketsOpen = (IF Refs(sock.held, demux) > 0 THEN 1 ELSE 0)

\* The release of an established session with nothing subscribed on the
\* channel closes the socket in the same step.
IdleReleaseCloses ==
    [][sock.held /\ ~sock'.held /\ ~demux.top.src
          => sock'.closed = sock.closed + 1 /\ sock'.made = sock.made]_vars

\* The consumer has released the connect sequence while a call on the channel
\* was active; the socket is still open and the call still receives.
C22_ReleasedButOpen ==
    /\ ~sock.held
    /\ SocketsOpen = 1
    /\ sock.closed = 0
    /\ \E r \in DOMAIN ops : ops[r].kind = "call" /\ ops[r].status = "active" /\
                             ~ops[r].closed /\ ops[r].out # <<>>

(* ------------------------------------------------------------------ *)
(* The end of the transport reaches every consumer                    *)
(* ------------------------------------------------------------------ *)
\* The transport has ended.
Cut == sock.cut # <<>>

\* The cause webSocket$ failed with, and the operations open at that moment.
CutCause == sock.cut[1]
CutOps == sock.cut[2]

\* A promise continuation of operation r has yet to run.
Continuing(r) == ops[r].kind = "register" /\ ops[r].pc \in {"resume", "reject"}

\* Operation r has failed with the cause the transport ended with.
FailedWithCause(r) == ops[r].status = "failed" /\ ops[r].err = CutCause

\* The end of the transport has reached the connect consumer and every
\* operation that was open.
ReachedAll ==
    /\ conn = "failed"
    /\ connError = CutCause
    /\ ~sock.held
    /\ \A r \in CutOps : ~Continuing(r) => FailedWithCause(r)

\* C23: when the transport closes or reports an error, the failure is
\* terminal and reaches every consumer: the connect consumer fails, and every
\* operation active at that moment - the handshake, a call, a subscription, a
\* pending publish or register - fails with that cause; none stays pending
\* forever, none completes normally.
C23_TransportEndReachesAll == Cut => ReachedAll

\* The same for the causes the code passes on as failures: every cause but
\* undefined.
DefinedCauseReachesAll == Cut /\ CutCause # <<Undefined>> => ReachedAll

\* The transport failed with an error event that carries no error: a call
\* that was open then has completed normally, with the results it had.
C23_CallCompletedOnError ==
    /\ Cut
    /\ CutCause = <<Undefined>>
    /\ \E r \in CutOps : /\ ops[r].kind = "call"
                         /\ ops[r].status = "completed"
                         /\ ops[r].err = <<>>

(* ------------------------------------------------------------------ *)
(* C31: an inbound ERROR ends an outstanding operation only when its  *)
(* request id and its request-type field both match the operation: an *)
(* operation that has failed was failed by an ERROR frame of its own  *)
(* request kind, one of another kind left it pending.                 *)
(* ------------------------------------------------------------------ *)
FailedByOwnKind(r) ==
    /\ ops[r].rx # <<>>
    /\ Last(ops[r].rx)[1] = Num(ERROR)
    /\ At(Last(ops[r].rx), 2) = Num(RequestType[ops[r].kind])

C31_OnlyOwnKindTerminates ==
    \A r \in DOMAIN ops : ops[r].status = "failed" => FailedByOwnKind(r)

\* A call failed by an ERROR frame whose request type is PUBLISH.
C31_CallFailedByForeignError ==
    /\ 101 \in DOMAIN ops
    /\ ops[101].kind = "call" /\ ops[101].status = "failed"
    /\ ops[101].rx = <<<<Num(ERROR), Num(PUBLISH), Num(101), "{}", "wamp.error.x">>>>
    /\ ops[101].err # <<>>

(* ------------------------------------------------------------------ *)
(* C32: an operation that has completed, been cancelled or failed     *)
(* holds no keyed consumer for its request id any more, neither in    *)
(* the reply stream of its kind nor in the ERROR stream.              *)
(* ------------------------------------------------------------------ *)
ReplyNames == {"error", "result", "published", "subscribed", "registered", "unregistered"}

\* The reply and ERROR streams in which a consumer is registered under the
\* request id r.
ConsumersFor(r) ==
    {name \in ReplyNames : Num(r) \in DOMAIN demux.sub[name].divisions}

\* The operation has had its terminal reply, or was cancelled or failed.
HasEnded(r) ==
    \/ ops[r].closed
    \/ ops[r].status \in {"completed", "failed"}
    \/ ops[r].kind = "unregister" /\ ops[r].pc = "acked"

C32_EndedHoldsNoConsumer ==
    \A r \in DOMAIN ops : HasEnded(r) => ConsumersFor(r) = {}

\* The same for every operation but the unregister request of a released handle.
EndedHoldsNoConsumerButUnregister ==
    \A r \in DOMAIN ops :
        (HasEnded(r) /\ ops[r].kind # "unregister") => ConsumersFor(r) = {}

\* The UNREGISTER 102 of a released registration was answered with
\* UNREGISTERED and its ERROR consumer is still registered.
C32_UnregisterKeepsErrorConsumer ==
    /\ 102 \in DOMAIN ops
    /\ ops[102].kind = "unregister" /\ ops[102].pc = "acked"
    /\ ops[102].rx = <<<<Num(UNREGISTERED), Num(102)>>>>
    /\ ConsumersFor(102) = {"error"}

(* ------------------------------------------------------------------ *)
(* C33: in an established session the inbound stream is subscribed    *)
(* while an operation is active (pending call, publish, register or   *)
(* unregister, pending or active subscription, bound registration,    *)
(* running invocation) and is released once none is.                  *)
(* ------------------------------------------------------------------ *)
InUse(r) ==
    CASE ops[r].kind = "register" ->
            \/ ops[r].pc = "await"
            \/ ops[r].pc = "bound" /\ ~ops[r].released
      [] ops[r].kind = "unregister" ->
            ops[r].status = "active" /\ ops[r].pc # "acked"
      [] ops[r].kind = "unsubscribe" -> FALSE
      [] OTHER -> ops[r].status = "active" /\ ~ops[r].closed

SomethingActive ==
    \/ \E r \in DOMAIN ops : InUse(r)
    \/ \E i \in DOMAIN invs : invs[i].state = "running"

C33_InboundFollowsOperations ==
    conn = "established" => (demux.top.src <=> SomethingActive)

\* The first half alone: an active operation holds the inbound stream.
ActiveHoldsInbound ==
    (conn = "established" /\ SomethingActive) => demux.top.src

\* The registration was released, its UNREGISTER 102 answered and every
\* invocation has ended, and the inbound stream is still subscribed.
C33_InboundHeldByNothing ==
    /\ conn = "established"
    /\ 102 \in DOMAIN ops
    /\ ops[101].released
    /\ ops[102].kind = "unregister" /\ ops[102].pc = "acked"
    /\ ~SomethingActive
    /\ demux.top.src

(* ------------------------------------------------------------------ *)
(* C34: a frame that is not JSON fails the session for good: every    *)
(* operation open when it arrives fails with the parse error, and an  *)
(* operation started afterwards gets no reply and does not succeed.   *)
(* ------------------------------------------------------------------ *)
\* The operations open when the first malformed frame arrived, and those
\* started after it.
OpenAtMalformed == sock.bad[1].open
StartedAfterMalformed == DOMAIN ops \ sock.bad[1].known

OpenFailedWithParseError ==
    sock.bad # <<>> =>
        \A r \in OpenAtMalformed :
            /\ ops[r].err = ParseError
            /\ ops[r].status = "failed" \/ ops[r].pc = "reject"

LaterGetNothing ==
    sock.bad # <<>> =>
        \A r \in StartedAfterMalformed :
            ops[r].rx = <<>> /\ ops[r].ev = <<>> /\ ops[r].status # "completed"

C34_MalformedIsTerminal == OpenFailedWithParseError /\ LaterGetNothing

\* A call started after the malformed frame has completed with the router's
\* result, on the same channel.
C34_LaterCallSucceeds ==
    /\ sock.bad # <<>>
    /\ conn = "established"
    /\ \E r \in OpenAtMalformed : ops[r].err = ParseError
    /\ \E r \in StartedAfterMalformed :
          /\ ops[r].kind = "call" /\ ops[r].status = "completed"
          /\ ops[r].out = <<<<"[3]">>>>

(* ------------------------------------------------------------------ *)
(* C35: with a challenge responder that answers later, no             *)
(* AUTHENTICATE is sent for a CHALLENGE until the responder has       *)
(* produced its result, and the AUTHENTICATE sent carries that        *)
(* signature.                                                         *)
(* ------------------------------------------------------------------ *)
C35_AuthenticateAwaitsResponder ==
    \A n \in DOMAIN challengeCalls :
        (challengeCalls[n][3][1] \in {"promise", "fulfilled"} /\ n <= Len(Authenticates)) =>
            /\ challengeCalls[n][3][1] = "fulfilled"
            /\ Authenticates[n][2] = challengeCalls[n][3][3]

\* AUTHENTICATE has been sent with {} as its signature while the responder's
\* promise is still pending.
C35_AuthenticateBeforeResult ==
    /\ Len(challengeCalls) = 1
    /\ challengeCalls[1][3] = <<"promise", "{}", "sig3">>
    /\ Authenticates = <<<<Num(AUTHENTICATE), "{}", "{}">>>>
    /\ conn = "await"

(* ------------------------------------------------------------------ *)
(* C37: no subscription is leaked at the router: when the consumer of *)
(* a SUBSCRIBE has released it, before or after SUBSCRIBED arrived,   *)
(* and the router has answered SUBSCRIBED(reqId, subsId), an          *)
(* UNSUBSCRIBE carrying subsId is eventually sent.                    *)
(* ------------------------------------------------------------------ *)
UnsubscribeSentFor(subsId) ==
    \E k \in 1..Len(sent) : IsUnsubscribe(sent[k]) /\ sent[k][3] = subsId

ReleasedAndGranted(r) ==
    /\ r \in DOMAIN ops
    /\ ops[r].kind = "subscribe"
    /\ ops[r].released
    /\ Answered(r)

C37_NoSubscriptionLeaked ==
    \A r \in {101, 102} : ReleasedAndGranted(r) ~> UnsubscribeSentFor(GrantedTo(r))

\* The half that holds: a consumer released after its SUBSCRIBED arrived has
\* had the UNSUBSCRIBE for its subscription id sent.
ReleasedAfterGrantUnsubscribes ==
    \A r \in DOMAIN ops :
        (ops[r].kind = "subscribe" /\ ops[r].released /\ ops[r].resId # "") =>
            UnsubscribeSentFor(ops[r].resId)

\* Consumer 101 was released before the router answered; SUBSCRIBED(101, 5)
\* arrived afterwards, no UNSUBSCRIBE for 5 has been sent and no step is left
\* that sends one.
C37_GrantAfterRelease ==
    /\ ReleasedAndGranted(101)
    /\ ops[101].rx = <<>> /\ ops[101].late = 1 /\ ops[101].resId = ""
    /\ ~UnsubscribeSentFor("5")
    /\ demux = NoDemux

(* ------------------------------------------------------------------ *)
(* C36: two subscribe consumers that the router gave the same         *)
(* subscription id are independent: while both are active each is     *)
(* handed every EVENT of that id, and releasing one neither ends the  *)
(* delivery to the other nor sends an UNSUBSCRIBE for the id the      *)
(* other still holds.                                                 *)
(* ------------------------------------------------------------------ *)
\* The consumers other than r that hold r's subscription id and are open.
SharingWith(r) ==
    {q \in SubscribeOps \ {r} :
        /\ ops[r].resId # ""
        /\ ops[q].resId = ops[r].resId
        /\ ~ops[q].closed}

EachSharerGetsEveryEvent ==
    \A r \in SubscribeOps :
        (~ops[r].closed /\ SharingWith(r) # {}) => Len(ops[r].out) = Len(ops[r].ev)

ReleaseLeavesSharers ==
    \A r \in SubscribeOps :
        (~ops[r].released /\ ops'[r].released /\ ~ops[r].closed) =>
            \A q \in SharingWith(r) :
                /\ ~UnsubscribeSentFor(ops[q].resId)'
                /\ ops[q].resId \in DOMAIN demux'.sub.event.divisions

C36_SharedIdIndependent ==
    /\ []EachSharerGetsEveryEvent
    /\ [][ReleaseLeavesSharers]_vars

\* Consumers 101 and 102 hold subscription id 5; 101 was released, which
\* sent UNSUBSCRIBE for 5 and removed the listener for 5; the EVENT that
\* arrived afterwards was not handed to 102, which is still subscribed.
C36_ReleaseEndsTheOther ==
    /\ SubscribeOps = {101, 102}
    /\ ops[101].resId = "5" /\ ops[102].resId = "5"
    /\ ops[101].released /\ ~ops[102].closed /\ ~ops[102].released
    /\ UnsubscribeSentFor("5")
    /\ "5" \notin DOMAIN demux.sub.event.divisions
    /\ ops[101].ev = <<>>
    /\ Len(ops[102].ev) = 1 /\ ops[102].out = <<>>

(* ------------------------------------------------------------------ *)
(* C38: when the transport's inbound stream fails or completes, the   *)
(* session writes no frame in reaction: no UNSUBSCRIBE for active     *)
(* subscriptions, no CANCEL for active calls, no YIELD or ERROR for   *)
(* running invocations.                                               *)
(* ------------------------------------------------------------------ *)
\* The step in which the transport ends.
TransportEnds == sock.cut = <<>> /\ sock'.cut # <<>>

\* The frames written in this step.
Written == SubSeq(sent', Len(sent) + 1, Len(sent'))

C38_NothingWrittenOnTermination ==
    [][TransportEnds => sent' = sent]_vars

\* The part that holds: no CANCEL is written for the calls that were active.
NoCancelOnTermination ==
    [][TransportEnds =>
         \A k \in 1..Len(Written) : Written[k][1] # Num(CANCEL)]_vars

\* The transport ended with a call pending and a subscription active, and
\* the last frame written is the UNSUBSCRIBE for that subscription.
C38_UnsubscribeWrittenAtEnd ==
    /\ sock.cut # <<>>
    /\ \E r \in sock.cut[2] : ops[r].kind = "call"
    /\ \E r \in sock.cut[2] :
          /\ ops[r].kind = "subscribe" /\ ops[r].resId = "5"
          /\ Last(sent) = <<Num(UNSUBSCRIBE), Num(nextReqId), "5">>
          /\ ops[nextReqId].kind = "unsubscribe"
          /\ nextReqId > r

(* ------------------------------------------------------------------ *)
(* C39: every INVOCATION for registration id R that arrives after     *)
(* REGISTERED(reqId, R) and before the handle is released has invoked *)
(* the handler exactly once with the frame's (args, dict), also one   *)
(* that arrives before the continuation of register has bound the     *)
(* invocation listener.                                               *)
(* ------------------------------------------------------------------ *)
\* The handler of registration r was called for the INVOCATION frame f.
HandledBy(r, f) ==
    /\ InvocationIdOf(f) \in DOMAIN invs
    /\ invs[InvocationIdOf(f)].reg = r
    /\ invs[InvocationIdOf(f)].args = <<At(f, 5), At(f, 6)>>

C39_EveryInvocationHandled ==
    \A r \in RegisterOps :
        ~ops[r].released =>
            /\ \A k \in 1..Len(ops[r].ev) : HandledBy(r, ops[r].ev[k])
            /\ Cardinality(TasksOf(r)) = Len(ops[r].ev)

\* REGISTERED(102, 9) and right after it INVOCATION(1000, 9) arrived; the
\* continuation of register has run since and bound the listener, and the
\* handler has not been called.
C39_EarlyInvocationDropped ==
    /\ 102 \in DOMAIN ops
    /\ ops[102].kind = "register" /\ ops[102].pc = "bound" /\ ~ops[102].released
    /\ ops[102].ev = <<<<Num(INVOCATION), Num(1000), "9", "{}", "[1]">>>>
    /\ invs = <<>>

(* ------------------------------------------------------------------ *)
(* C40: release is idempotent: however often it is released, a        *)
(* registration handle has sent exactly one UNREGISTER, a subscribe   *)
(* consumer at most one UNSUBSCRIBE and a call consumer at most one   *)
(* CANCEL.                                                            *)
(* ------------------------------------------------------------------ *)
\* How many frames of the kind were sent with the value at the position.
SentWith(kind, pos, value) ==
    Cardinality({k \in 1..Len(sent) :
                    sent[k][1] = Num(kind) /\ At(sent[k], pos) = value})

====
